---------------------------- MODULE Spec2Model ----------------------------
(***************************************************************************)
(* A model of the ovis framework core: versioned index ids, the IdStorage  *)
(* allocator, the id-mapped sparse resource store and the per-frame job    *)
(* scheduler (worker pool, ready queue, frame-result channel, post-frame   *)
(* entity bookkeeping).                                                    *)
(***************************************************************************)
EXTENDS Integers, Sequences, FiniteSets, TLC

(***************************************************************************)
(* Versioned index ids (core/src/versioned_index_id.rs).  The id is one    *)
(* unsigned word, index in the low INDEX_BITS bits and version above them: *)
(* id = index + (version << INDEX_BITS).  NUM_INDICES = 1 << INDEX_BITS    *)
(* and NUM_VERSIONS = 1 << VERSION_BITS in the source (2^24 and 2^8 by     *)
(* default); the model keeps the packing and scales the two capacities     *)
(* down, so a shift by INDEX_BITS is a multiplication or division by       *)
(* NUM_INDICES and a mask by MAX_INDEX / MAX_VERSION a remainder.          *)
(***************************************************************************)
NUM_INDICES == 2

NUM_VERSIONS == 2

MAX_INDEX == NUM_INDICES - 1

MAX_VERSION == NUM_VERSIONS - 1

\* every value of the id word
AllIds == 0 .. (NUM_INDICES * NUM_VERSIONS - 1)

\* index(): id & MAX_INDEX
index(id) == id % NUM_INDICES

\* version(): id >> INDEX_BITS
version(id) == id \div NUM_INDICES

\* from_index_and_version: index + (version << INDEX_BITS); the two range
\* assertions are the callers' guards (from_index_and_version_ok)
from_index_and_version(i, v) == i + v * NUM_INDICES

from_index_and_version_ok(i, v) == i < NUM_INDICES /\ v < NUM_VERSIONS

\* from_index: asserts index < 1 << INDEX_BITS
from_index(i) == i

from_index_ok(i) == i < NUM_INDICES

\* next_version_id without the & MAX_VERSION
next_version_id_unmasked(id) == from_index_and_version(index(id), version(id) + 1)

\* next_version_id: same index, (version + 1) & MAX_VERSION
next_version_id(id) ==
    from_index_and_version(index(id), (version(id) + 1) % NUM_VERSIONS)

(***************************************************************************)
(* IdStorage (src/id_storage.rs).  A storage is a record                   *)
(*   [ids, free_list_head, free_list_size];                                *)
(* ids is the Vec<Id> (1-based here, slot i is ids[i + 1]).                *)
(***************************************************************************)
IdStorage_FREE_LIST_END == MAX_INDEX

IdStorage_new ==
    [ids |-> << >>, free_list_head |-> IdStorage_FREE_LIST_END, free_list_size |-> 0]

IdStorage_len(st) == Len(st.ids) - st.free_list_size

IdStorage_contains(st, id) ==
    index(id) < Len(st.ids) /\ st.ids[index(id) + 1] = id

\* reserve panics only in its push branch, on from_index's assertion
IdStorage_reserve_panics(st) ==
    st.free_list_head = IdStorage_FREE_LIST_END /\ ~from_index_ok(Len(st.ids))

\* the id reserve returns
IdStorage_reserve_id(st) ==
    IF st.free_list_head # IdStorage_FREE_LIST_END
    THEN LET idx == st.free_list_head
             indexed_id == st.ids[idx + 1]
         IN  next_version_id(from_index_and_version(idx, version(indexed_id)))
    ELSE from_index(Len(st.ids))

\* the storage reserve leaves behind
IdStorage_reserve(st) ==
    IF st.free_list_head # IdStorage_FREE_LIST_END
    THEN LET idx == st.free_list_head
             indexed_id == st.ids[idx + 1]
         IN  [ids |-> [st.ids EXCEPT ![idx + 1] = IdStorage_reserve_id(st)],
              free_list_head |-> index(indexed_id),
              free_list_size |-> st.free_list_size - 1]
    ELSE [st EXCEPT !.ids = Append(st.ids, IdStorage_reserve_id(st))]

\* a free that forgets the version the slot held
IdStorage_free_drops_version(st, id) ==
    [ids |-> [st.ids EXCEPT ![index(id) + 1] =
                 from_index_and_version(st.free_list_head, 0)],
     free_list_head |-> index(id),
     free_list_size |-> st.free_list_size + 1]

\* free, past its assert!(self.contains(id))
IdStorage_free(st, id) ==
    [ids |-> [st.ids EXCEPT ![index(id) + 1] =
                 from_index_and_version(st.free_list_head, version(id))],
     free_list_head |-> index(id),
     free_list_size |-> st.free_list_size + 1]


(***************************************************************************)
(* IdMappedResourceStorage, the single-value sparse store                  *)
(* (core/src/resource/id_mapped_storage.rs).  A store is a record          *)
(*   [resources, forward_array, reverse_array, free_list_head];            *)
(* the three Vecs are 1-based here.  A dense slot whose value was moved    *)
(* out by assume_init_read holds Uninit.                                   *)
(***************************************************************************)
MaxValue == 2

Values == 1 .. MaxValue

\* Option<R>: None is the empty tuple, Some(r) the tuple of r
None == << >>

Some(r) == <<r>>

\* the content of a dense slot that holds no value
Uninit == 0

Store_FREE_LIST_END == MAX_VERSION

Store_new ==
    [resources |-> << >>, forward_array |-> << >>, reverse_array |-> << >>,
     free_list_head |-> Store_FREE_LIST_END]

\* reverse_array.resize_with(id.index() + 1, || Id::from_index_and_version(0, 0))
Store_resized_reverse(st, id) ==
    IF index(id) >= Len(st.reverse_array)
    THEN [k \in 1 .. index(id) + 1 |->
             IF k <= Len(st.reverse_array) THEN st.reverse_array[k]
             ELSE from_index_and_version(0, 0)]
    ELSE st.reverse_array

\* insert panics only where it builds the reverse entry of a pushed dense slot
Store_insert_panics(st, id) ==
    /\ version(Store_resized_reverse(st, id)[index(id) + 1]) = 0
    /\ st.free_list_head = Store_FREE_LIST_END
    /\ ~from_index_and_version_ok(Len(st.forward_array), 1)

\* insert answering None whatever the store holds
Store_insert_result_forgets(st, id) == None

\* what insert returns: None for a new entry, Some(previous value) otherwise
Store_insert_result(st, id) ==
    LET reverse_ref == Store_resized_reverse(st, id)[index(id) + 1]
    IN  IF version(reverse_ref) = 0 THEN None
        ELSE Some(st.resources[index(reverse_ref) + 1])

\* the store insert leaves behind
Store_insert(st, id, resource) ==
    LET reverse == Store_resized_reverse(st, id)
        reverse_ref == reverse[index(id) + 1]
    IN  IF version(reverse_ref) = 0
        THEN IF st.free_list_head = Store_FREE_LIST_END
             THEN [resources |-> Append(st.resources, resource),
                   forward_array |-> Append(st.forward_array, id),
                   reverse_array |-> [reverse EXCEPT ![index(id) + 1] =
                       from_index_and_version(Len(st.forward_array), 1)],
                   free_list_head |-> st.free_list_head]
             ELSE LET insert_index == st.free_list_head
                  IN  [resources |-> [st.resources EXCEPT ![insert_index + 1] = resource],
                       forward_array |-> [st.forward_array EXCEPT ![insert_index + 1] = id],
                       reverse_array |-> [reverse EXCEPT ![index(id) + 1] =
                           from_index_and_version(insert_index, 1)],
                       free_list_head |-> index(st.forward_array[insert_index + 1])]
        ELSE [st EXCEPT !.reverse_array = reverse,
                        !.resources[index(reverse_ref) + 1] = resource]

\* whether remove finds an entry
Store_remove_hits(st, id) ==
    /\ index(id) < Len(st.reverse_array)
    /\ version(st.reverse_array[index(id) + 1]) # 0

\* what remove returns
Store_remove_result(st, id) ==
    IF Store_remove_hits(st, id)
    THEN Some(st.resources[index(st.reverse_array[index(id) + 1]) + 1])
    ELSE None

\* the store remove leaves behind
Store_remove(st, id) ==
    IF Store_remove_hits(st, id)
    THEN LET reverse_ref == st.reverse_array[index(id) + 1]
             idx == index(reverse_ref)
         IN  [resources |-> [st.resources EXCEPT ![idx + 1] = Uninit],
              forward_array |-> [st.forward_array EXCEPT ![idx + 1] =
                  from_index_and_version(st.free_list_head, 0)],
              reverse_array |-> [st.reverse_array EXCEPT ![index(id) + 1] =
                  from_index_and_version(index(reverse_ref), 0)],
              free_list_head |-> idx]
    ELSE st

\* get: Some(value) when the reverse entry of index(id) has version 1
Store_get(st, id) ==
    IF index(id) < Len(st.reverse_array)
    THEN LET reverse == st.reverse_array[index(id) + 1]
         IN  IF version(reverse) = 1 THEN Some(st.resources[index(reverse) + 1]) ELSE None
    ELSE None

\* IdMappedResourceStorageIterator::increment_to_valid_index: the first dense
\* position from start on whose forward id has that position as its index,
\* or None
RECURSIVE Store_increment_to_valid_index(_, _)
Store_increment_to_valid_index(st, start) ==
    IF start >= Len(st.forward_array) THEN None
    ELSE IF index(st.forward_array[start + 1]) = start THEN Some(start)
    ELSE Store_increment_to_valid_index(st, start + 1)

\* the items next() yields from an iterator whose index field is at
RECURSIVE Store_iter_from(_, _)
Store_iter_from(st, at) ==
    IF at = None THEN << >>
    ELSE << <<st.forward_array[at[1] + 1], st.resources[at[1] + 1]>> >>
             \o Store_iter_from(st, Store_increment_to_valid_index(st, at[1] + 1))

\* everything iter() yields, in order
Store_iter(st) == Store_iter_from(st, Store_increment_to_valid_index(st, 0))

(***************************************************************************)
(* Iterating an IdStorage (src/id_storage.rs): id_filter keeps the slots   *)
(* whose stored id carries the slot's own position as its index.           *)
(***************************************************************************)
id_filter(position, id) == IF position = index(id) THEN Some(id) ELSE None

RECURSIVE IdStorage_iter_from(_, _)
IdStorage_iter_from(s, position) ==
    IF position >= Len(s.ids) THEN << >>
    ELSE id_filter(position, s.ids[position + 1]) \o IdStorage_iter_from(s, position + 1)

IdStorage_iter(s) == IdStorage_iter_from(s, 0)

(***************************************************************************)
(* IdMap (src/id_storage.rs): an IdStorage and a vector of MaybeUninit     *)
(* values indexed by id.index().  A slot of values is Uninit while it      *)
(* holds no initialised value: before its first write, and after its value *)
(* was moved out (assume_init_read) or dropped (assume_init_drop).         *)
(***************************************************************************)
IdMap_new == [ids |-> IdStorage_new, values |-> << >>]

IdMap_len(m) == IdStorage_len(m.ids)

IdMap_contains(m, id) == IdStorage_contains(m.ids, id)

\* Vec::resize_with(new_len, || MaybeUninit::uninit())
resize_with_uninit(values, new_len) ==
    [k \in 1 .. new_len |-> IF k <= Len(values) THEN values[k] ELSE Uninit]

\* insert: the values vector after the optional resize_with
IdMap_insert_resized(m) ==
    LET id == IdStorage_reserve_id(m.ids)
    IN  IF index(id) >= Len(m.values)
        THEN resize_with_uninit(m.values, IdStorage_len(IdStorage_reserve(m.ids)))
        ELSE m.values

\* insert panics in reserve, or indexing values out of bounds
IdMap_insert_panics(m) ==
    \/ IdStorage_reserve_panics(m.ids)
    \/ index(IdStorage_reserve_id(m.ids)) >= Len(IdMap_insert_resized(m))

IdMap_insert_id(m) == IdStorage_reserve_id(m.ids)

IdMap_insert(m, value) ==
    [ids |-> IdStorage_reserve(m.ids),
     values |-> [IdMap_insert_resized(m) EXCEPT ![index(IdMap_insert_id(m)) + 1] = value]]

\* get and get_mut: Some(values[id.index()].assume_init_ref()) iff contains(id)
IdMap_get(m, id) ==
    IF IdMap_contains(m, id) THEN Some(m.values[index(id) + 1]) ELSE None

\* remove past its assertion: the value read out of the slot
IdMap_remove_result(m, id) == m.values[index(id) + 1]

IdMap_remove(m, id) ==
    [ids |-> IdStorage_free(m.ids, id),
     values |-> [m.values EXCEPT ![index(id) + 1] = Uninit]]

\* Drop for IdMap: assume_init_drop on the slot of every id that &self.ids yields
IdMap_drop_slots(m) == {index(IdStorage_iter(m.ids)[k]) : k \in DOMAIN IdStorage_iter(m.ids)}

IdMap_drop(m) ==
    [ids |-> m.ids,
     values |-> [k \in DOMAIN m.values |->
                    IF (k - 1) \in IdMap_drop_slots(m) THEN Uninit ELSE m.values[k]]]

(***************************************************************************)
(* The job registry (src/instance.rs, core/src/job.rs): an IdMap of Jobs.  *)
(***************************************************************************)
JobKinds == {"Setup", "Update"}

\* Job::new
Job_new(kind) == [kind |-> kind, dependencies |-> {}]

\* add_job_dependency without the comparison of the kinds
add_job_dependency_any_kind(jobs, job_id, dependency_id) ==
    IF IdMap_get(jobs, dependency_id) # None /\ IdMap_get(jobs, job_id) # None
    THEN [jobs EXCEPT !.values[index(job_id) + 1].dependencies = @ \cup {dependency_id}]
    ELSE jobs

\* add_job_dependency: the registry afterwards
add_job_dependency(jobs, job_id, dependency_id) ==
    IF IdMap_get(jobs, dependency_id) # None
    THEN LET dependency_kind == IdMap_get(jobs, dependency_id)[1].kind
         IN  IF IdMap_get(jobs, job_id) # None
             THEN IF IdMap_get(jobs, job_id)[1].kind = dependency_kind
                  THEN [jobs EXCEPT !.values[index(job_id) + 1].dependencies =
                                        @ \cup {dependency_id}]
                  ELSE jobs
             ELSE jobs
    ELSE jobs

(***************************************************************************)
(* The resource registry and the scene (core/src/resource/mod.rs,          *)
(* core/src/scene.rs).  The registry is an IdMap of registrations; a scene *)
(* holds one optional storage per index of the registry it was built from. *)
(***************************************************************************)
Labels == {"position", "velocity"}

\* register_resource's ResourceRegistration
ResourceRegistration(label) == [label |-> label]

\* the (id, registration) pairs iterating the registry yields, in order
IdMap_iter(m) ==
    [k \in DOMAIN IdStorage_iter(m.ids) |->
        <<IdStorage_iter(m.ids)[k], m.values[index(IdStorage_iter(m.ids)[k]) + 1]>>]

\* resource_id_from_label: the id of the first registration with the label
RECURSIVE first_with_label(_, _)
first_with_label(pairs, label) ==
    IF pairs = << >> THEN None
    ELSE IF Head(pairs)[2].label = label THEN Some(Head(pairs)[1])
    ELSE first_with_label(Tail(pairs), label)

resource_id_from_label(registry, label) == first_with_label(IdMap_iter(registry), label)

\* make_resource_storages: for every registration met, the vector is resized
\* to reach its index and the slot is set to the storage its factory makes
RECURSIVE make_resource_storages_from(_, _)
make_resource_storages_from(pairs, vec) ==
    IF pairs = << >> THEN vec
    ELSE LET i == index(Head(pairs)[1])
             resized == IF i >= Len(vec)
                        THEN [k \in 1 .. i + 1 |-> IF k <= Len(vec) THEN vec[k] ELSE None]
                        ELSE vec
         IN  make_resource_storages_from(Tail(pairs), [resized EXCEPT ![i + 1] = Some(Store_new)])

make_resource_storages(registry) == make_resource_storages_from(IdMap_iter(registry), << >>)

\* SceneState::new; registered is history: the ids registered at that time
SceneState_new(registry) ==
    [resources |-> make_resource_storages(registry),
     entities |-> IdStorage_new,
     registered |-> {id \in AllIds : IdMap_contains(registry, id)}]

\* resource_storage: self.state.resources[resource_id.index()] is a Vec index
resource_storage_panics(scn, resource_id) == index(resource_id) >= Len(scn.resources)

\* resource_storage past the index: .as_ref() of the slot
resource_storage(scn, resource_id) == scn.resources[index(resource_id) + 1]

(***************************************************************************)
(* Scene::from_json (core/src/scene.rs).  A document is a record           *)
(* [entities]: None when the document has no "entities" array, else the    *)
(* entities in order; an entity is a record [components]: None when it has *)
(* no "components" object, else its (label, value) members in the order    *)
(* the JSON map iterates them.  A value either deserializes as the         *)
(* labelled resource or it does not (Malformed).                           *)
(***************************************************************************)
MaxJsonEntities == 2

MaxComponents == 2

Malformed == 0 - 1

JsonLabels == Labels \cup {"unheard_of"}

JsonComponents ==
    {c \in UNION {[1 .. n -> JsonLabels \X (Values \cup {Malformed})] : n \in 0 .. MaxComponents} :
        \A a, b \in DOMAIN c : a # b => c[a][1] # c[b][1]}

JsonEntities == [components : {None} \cup {Some(c) : c \in JsonComponents}]

JsonDocuments ==
    [entities : {None} \cup {Some(es) : es \in UNION {[1 .. n -> JsonEntities] :
                                                        n \in 0 .. MaxJsonEntities}}]

\* the outcomes of from_json; a panic is the third
FromJsonOk(scn) == [kind |-> "Ok", message |-> "", label |-> "", scene |-> scn]

FromJsonErr(message, label, scn) ==
    [kind |-> "Err", message |-> message, label |-> label, scene |-> scn]

FromJsonPanic(scn) == [kind |-> "panic", message |-> "", label |-> "", scene |-> scn]

\* the loop over the components of one entity
RECURSIVE from_json_components(_, _, _, _)
from_json_components(registry, scn, entity_id, components) ==
    IF components = << >> THEN FromJsonOk(scn)
    ELSE LET label == Head(components)[1]
             component == Head(components)[2]
             resource_id == resource_id_from_label(registry, label)
         IN  IF resource_id = None
             THEN FromJsonErr("invalid entity component: ", label, scn)
             ELSE IF resource_storage_panics(scn, resource_id[1])
             THEN FromJsonPanic(scn)
             ELSE IF resource_storage(scn, resource_id[1]) = None
             THEN FromJsonErr("invalid entity component: ", label, scn)
             ELSE LET storage == resource_storage(scn, resource_id[1])[1]
                  IN  IF component = Malformed \/ Store_insert_panics(storage, entity_id)
                      THEN FromJsonPanic(scn)
                      ELSE from_json_components(registry,
                               [scn EXCEPT !.resources[index(resource_id[1]) + 1] =
                                   Some(Store_insert(storage, entity_id, component))],
                               entity_id, Tail(components))

\* the loop over the entities
RECURSIVE from_json_entities(_, _, _)
from_json_entities(registry, scn, entities) ==
    IF entities = << >> THEN FromJsonOk(scn)
    ELSE IF IdStorage_reserve_panics(scn.entities) THEN FromJsonPanic(scn)
    ELSE LET entity_id == IdStorage_reserve_id(scn.entities)
             reserved == [scn EXCEPT !.entities = IdStorage_reserve(scn.entities)]
         IN  IF Head(entities).components = None
             THEN FromJsonErr("components field not found", "", reserved)
             ELSE LET loaded == from_json_components(registry, reserved, entity_id,
                                                     Head(entities).components[1])
                  IN  IF loaded.kind = "Ok"
                      THEN from_json_entities(registry, loaded.scene, Tail(entities))
                      ELSE loaded

from_json(registry, json) ==
    IF json.entities = None
    THEN FromJsonErr("no entities found in scene JSON", "", SceneState_new(registry))
    ELSE from_json_entities(registry, SceneState_new(registry), json.entities[1])

(***************************************************************************)
(* Scheduler (src/scheduler.rs): the job graph Scheduler::new builds.      *)
(* A graph is the registry's jobs of one kind in job-index order, each     *)
(* given by its set of dependencies; job indices are 1-based here          *)
(* (0-based in the source).                                                *)
(***************************************************************************)
MaxWorkers == 2

MaxViewports == 2

MaxFrames == 2

\* job graphs: one job
OneJob == << {} >>

\* B after A
TwoJobChain == << {}, {1} >>

\* one job; B after A; two independent jobs
SmallJobGraphs == { OneJob, TwoJobChain, << {}, {} >> }

\* and C after both A and B
JobGraphs == SmallJobGraphs \cup { << {}, {}, {1, 2} >> }

RECURSIVE AscendingSeq(_)
AscendingSeq(S) ==
    IF S = {} THEN << >>
    ELSE LET m == CHOOSE x \in S : \A y \in S : x <= y
         IN  <<m>> \o AscendingSeq(S \ {m})

\* JobState::executed_per_viewport, as Scheduler::new sets it for every job
executed_per_viewport(j) == TRUE

\* never incremented by Scheduler::new
regular_job_count == 0

\* incremented once per job
per_viewport_job_count(g) == Len(g)

jobs_without_dependencies(g) == AscendingSeq({j \in DOMAIN g : g[j] = {}})

\* JobState::required_for of job p: pushed in the order the jobs are visited
required_for(g, p) == AscendingSeq({j \in DOMAIN g : p \in g[j]})

regular_dependency_count(g, j) ==
    Cardinality({d \in g[j] : ~executed_per_viewport(d)})

per_viewport_dependency_count(g, j) ==
    Cardinality({d \in g[j] : executed_per_viewport(d)})

\* the viewport ids an IdMap of n viewports iterates, in index order
ViewportIds(n) == [k \in 1 .. n |-> from_index(k - 1)]

NoViewport == 0 - 1

\* a push that does not depend on the viewports
ScheduledJobsOf_once(j, n) == << [job_index |-> j, viewport_id |-> NoViewport] >>

\* the ScheduledJobs pushed for job j: one per viewport, or one without viewport
ScheduledJobsOf(j, n) ==
    IF executed_per_viewport(j)
    THEN [k \in 1 .. n |-> [job_index |-> j, viewport_id |-> ViewportIds(n)[k]]]
    ELSE << [job_index |-> j, viewport_id |-> NoViewport] >>

RECURSIVE ConcatAll(_)
ConcatAll(seqs) == IF seqs = << >> THEN << >> ELSE Head(seqs) \o ConcatAll(Tail(seqs))

\* what run_jobs pushes under the queue mutex
RootScheduledJobs(g, n) ==
    LET roots == jobs_without_dependencies(g)
    IN  ConcatAll([k \in 1 .. Len(roots) |-> ScheduledJobsOf(roots[k], n)])

\* the number of completed executions at which a worker publishes Ok(())
ExpectedJobsFinished(g, n) == regular_job_count + per_viewport_job_count(g) * n

\* the number of predecessor completions at which a job is enqueued
Saturation(g, j, n) ==
    regular_dependency_count(g, j) + per_viewport_dependency_count(g, j) * n

\* frame results
OkResult == [kind |-> "Ok", job_index |-> 0, viewport_id |-> 0, frame |-> 0]

ErrResult(j, v, f) == [kind |-> "Err", job_index |-> j, viewport_id |-> v, frame |-> f]

NoResult == [kind |-> "none", job_index |-> 0, viewport_id |-> 0, frame |-> 0]

\* a worker at the top of its loop, in wait_mut
IdleWorker ==
    [pc |-> "idle", job_index |-> 0, viewport_id |-> 0, pushed |-> 0, succ |-> 0, vp |-> 0,
     game_time |-> 0, delta_time |-> 0]

\* the jobs that can ever become ready: those without dependencies, and those
\* whose dependencies all can (what a topological sort of the graph reaches)
RECURSIVE CanBecomeReady(_, _)
CanBecomeReady(g, ready) ==
    LET more == {j \in DOMAIN g : g[j] \subseteq ready}
    IN  IF more = ready THEN ready ELSE CanBecomeReady(g, more)

HasCycle(g) == CanBecomeReady(g, {}) # DOMAIN g

\* registries with a cyclic dependency: a job that is its own predecessor,
\* two jobs depending on each other, and such a pair next to a root job
CyclicJobGraphs == { << {1} >>, << {2}, {1} >>, << {}, {3}, {2} >> }

\* Scheduler::new returns Self; it stops only in job_state_indices[dependency],
\* when a recorded dependency is not among the jobs of the kind
Scheduler_new_panics(g) == \E j \in DOMAIN g : \E dependency \in g[j] : dependency \notin DOMAIN g

\* Job::resource_access of the registered jobs: job j declares Read of the
\* resource numbered j % 2 (Read is the only variant of ResourceAccess)
resource_access(j) == << [access |-> "Read", resource |-> j % 2] >>

\* the lock guards a worker holds: none in wait_mut; from the pop to the end of
\* the loop body the read guards of the viewports and of the pipelines
locks_held(wk) ==
    IF wk.pc \in {"idle", "parked"} THEN {}
    ELSE {[lock |-> "viewports", resource |-> 0, mode |-> "read"],
          [lock |-> "pipelines", resource |-> 0, mode |-> "read"]}

\* the arguments of run_jobs: the call numbered f passes a pair of its own, so
\* that a pair handed to a job tells which call it was passed to
game_time_of_call(f) == f

delta_time_of_call(f) == MaxFrames + 2 - f

\* history: ScheduledJobs marked with the run_jobs call they stem from: the call
\* that pushes them, or the call of the execution whose completion pushes them
StemmingFrom(scheduled_jobs, f) ==
    [k \in DOMAIN scheduled_jobs |->
        [job_index |-> scheduled_jobs[k].job_index,
         viewport_id |-> scheduled_jobs[k].viewport_id, pushed |-> f]]

(***************************************************************************)
(* State.  One group of variables per subsystem; each specification below  *)
(* drives one group and leaves the others at their initial values.         *)
(***************************************************************************)
VARIABLES
    \* -- an IdStorage driven by reserve / free calls
    storage,          \* the IdStorage
    ids_panicked,     \* an assertion of reserve / free failed
    ids_live,         \* history: ids returned by reserve and not freed since
    ids_issued,       \* history: per slot, the last NUM_VERSIONS + 1 ids issued
    ids_recent,       \* history: the last three calls, oldest first
    \* -- a single-value sparse store driven by insert / remove calls
    store,            \* the IdMappedResourceStorage
    store_panicked,   \* an assertion of insert failed
    store_last,       \* history: the last call, its arguments and its result
    \* -- an IdMap driven by insert / get_mut / remove calls and dropped at last
    map,                  \* the IdMap
    map_ended,            \* "no", or how its life ended: "panicked", "dropped"
    map_written,          \* history: per id issued and not removed, its value
    map_last,             \* history: the last call, its arguments and its result
    map_released_uninit,  \* history: a slot without a value was read out or dropped
    map_overwritten,      \* history: a slot was written while it held a value
    \* -- a scene built from the resource registry
    scene,                \* None, or Some(the SceneState)
    scene_last,           \* history: the last call on the scene and its result
    \* -- a slice sparse store driven by insert_slice / push calls
    slices,               \* the IdMappedResourceSliceStorage
    slices_written,       \* history: per id, the slice inserted last
    slices_last,          \* history: the last call and its arguments
    slices_calls,         \* history: the number of calls made
    \* -- a Scheduler, its worker threads and the thread calling run_jobs
    graph,                  \* the job graph the scheduler was built over
    worker_count,           \* Scheduler::new's worker_count
    viewport_count,         \* number of viewports in the shared state
    game_time,              \* Scheduler::game_time (the atomic)
    delta_time,             \* Scheduler::delta_time (the atomic)
    workers,                \* per worker thread: where it is in its loop
    available_jobs,         \* the ready queue behind the SimpleCondvar
    jobs_finished,          \* SharedState::jobs_finished
    dependencies_finished,  \* per job: JobState::dependencies_finished
    frame_finished,         \* the frame-result channel, oldest first
    spawned_entities,       \* the spawn-request channel
    despawned_entities,     \* the despawn-request channel
    entities,               \* the IdStorage of entities
    caller,                 \* where the thread calling run_jobs is
    frame,                  \* number of run_jobs calls started
    last_result,            \* what the last returned run_jobs call returned
    prev_result,            \* what the call before it returned
    entered,                \* history: per (job, viewport), function entries of
                            \* the executions that stem from the current call
    returned,               \* history: likewise, function returns
    failed,                 \* history: how many of these executions failed
    failed_jobs,            \* history: the jobs these failed executions were of
    requested,              \* history: requests sent since the current call began
    at_call,                \* history: entities and channels when it began
    drained,                \* history: the requests the current call has applied
    textures,               \* per viewport: Viewport::texture and texture_view
    tick_frame              \* the run_jobs call the textures were acquired for

idsVars == <<storage, ids_panicked, ids_live, ids_issued, ids_recent>>

storeVars == <<store, store_panicked, store_last>>

configVars == <<graph, worker_count, viewport_count>>

timeVars == <<game_time, delta_time>>

queueVars == <<workers, available_jobs>>

counterVars == <<jobs_finished, dependencies_finished>>

entityVars == <<spawned_entities, despawned_entities, entities>>

callerVars == <<caller, frame, last_result, prev_result>>

historyVars == <<entered, returned, failed, failed_jobs, requested, at_call, drained>>

tickVars == <<textures, tick_frame>>

schedVars == <<tickVars, configVars, timeVars, queueVars, counterVars, frame_finished, entityVars,
               callerVars, historyVars>>

mapVars == <<map, map_ended, map_written, map_last, map_released_uninit, map_overwritten>>

sceneVars == <<scene, scene_last>>

sliceVars == <<slices, slices_written, slices_last, slices_calls>>

vars == <<idsVars, storeVars, mapVars, sceneVars, sliceVars, schedVars>>

(***************************************************************************)
(* Specification SpecIdStorage: any sequence of reserve / free calls.      *)
(***************************************************************************)
Window(seq, n) == IF Len(seq) > n THEN SubSeq(seq, Len(seq) - n + 1, Len(seq)) ELSE seq

IdsInit ==
    /\ storage = IdStorage_new
    /\ ids_panicked = FALSE
    /\ ids_live = {}
    /\ ids_issued = [i \in 0 .. MAX_INDEX |-> << >>]
    /\ ids_recent = << >>

\* storage.reserve() returning an id
Ids_reserve ==
    /\ ~ids_panicked
    /\ ~IdStorage_reserve_panics(storage)
    /\ LET id == IdStorage_reserve_id(storage)
       IN  /\ storage' = IdStorage_reserve(storage)
           /\ ids_live' = ids_live \cup {id}
           /\ ids_issued' = [ids_issued EXCEPT ![index(id)] =
                                Window(Append(@, id), NUM_VERSIONS + 1)]
           /\ ids_recent' = Window(Append(ids_recent, [op |-> "reserve", id |-> id]), 3)
    /\ UNCHANGED <<ids_panicked, storeVars, mapVars, sceneVars, sliceVars, schedVars>>

\* storage.reserve() failing from_index's assertion
Ids_reserve_panics ==
    /\ ~ids_panicked
    /\ IdStorage_reserve_panics(storage)
    /\ ids_panicked' = TRUE
    /\ UNCHANGED <<storage, ids_live, ids_issued, ids_recent, storeVars, mapVars, sceneVars, sliceVars, schedVars>>

\* storage.free(id) past its assertion.  free_list_size is a usize that len()
\* subtracts from ids.len(): the call is not made once it has reached ids.len()
Ids_free(id) ==
    /\ ~ids_panicked
    /\ IdStorage_contains(storage, id)
    /\ storage.free_list_size < Len(storage.ids)
    /\ storage' = IdStorage_free(storage, id)
    /\ ids_live' = ids_live \ {id}
    /\ ids_recent' = Window(Append(ids_recent, [op |-> "free", id |-> id]), 3)
    /\ UNCHANGED <<ids_panicked, ids_issued, storeVars, mapVars, sceneVars, sliceVars, schedVars>>

\* storage.free(id) failing assert!(self.contains(id))
Ids_free_panics(id) ==
    /\ ~ids_panicked
    /\ ~IdStorage_contains(storage, id)
    /\ ids_panicked' = TRUE
    /\ UNCHANGED <<storage, ids_live, ids_issued, ids_recent, storeVars, mapVars, sceneVars, sliceVars, schedVars>>

IdsNext ==
    \/ Ids_reserve
    \/ Ids_reserve_panics
    \/ \E id \in AllIds : Ids_free(id)
    \/ \E id \in AllIds : Ids_free_panics(id)

(***************************************************************************)
(* A sparse store under any sequence of insert / remove calls.             *)
(***************************************************************************)
StoreInit ==
    /\ store = Store_new
    /\ store_panicked = FALSE
    /\ store_last = [op |-> "new"]

\* store.insert(id, resource) returning
St_insert(id, resource) ==
    /\ ~store_panicked
    /\ ~Store_insert_panics(store, id)
    /\ store' = Store_insert(store, id, resource)
    /\ store_last' = [op |-> "insert", id |-> id, resource |-> resource,
                      result |-> Store_insert_result(store, id)]
    /\ UNCHANGED <<store_panicked, idsVars, mapVars, sceneVars, sliceVars, schedVars>>

\* store.insert(id, resource) failing from_index_and_version's assertion
St_insert_panics(id, resource) ==
    /\ ~store_panicked
    /\ Store_insert_panics(store, id)
    /\ store_panicked' = TRUE
    /\ store_last' = [op |-> "panic"]
    /\ UNCHANGED <<store, idsVars, mapVars, sceneVars, sliceVars, schedVars>>

\* store.remove(id)
St_remove(id) ==
    /\ ~store_panicked
    /\ store' = Store_remove(store, id)
    /\ store_last' = [op |-> "remove", id |-> id,
                      result |-> Store_remove_result(store, id)]
    /\ UNCHANGED <<store_panicked, idsVars, mapVars, sceneVars, sliceVars, schedVars>>

StoreNext ==
    \/ \E id \in AllIds, resource \in Values : St_insert(id, resource)
    \/ \E id \in AllIds, resource \in Values : St_insert_panics(id, resource)
    \/ \E id \in AllIds : St_remove(id)

(***************************************************************************)
(* An IdMap under any sequence of insert / get_mut / remove calls, dropped *)
(* at any point.                                                           *)
(***************************************************************************)
MapInit ==
    /\ map = IdMap_new
    /\ map_ended = "no"
    /\ map_written = << >>
    /\ map_last = [op |-> "new"]
    /\ map_released_uninit = FALSE
    /\ map_overwritten = FALSE

Without(f, id) == [e \in (DOMAIN f) \ {id} |-> f[e]]

With(f, id, value) == [e \in (DOMAIN f) \cup {id} |-> IF e = id THEN value ELSE f[e]]

\* map.insert(value) returning (id, &mut value); MaybeUninit::write does not
\* drop what the slot held
Map_insert(value) ==
    /\ map_ended = "no"
    /\ ~IdMap_insert_panics(map)
    /\ LET id == IdMap_insert_id(map)
       IN  /\ map' = IdMap_insert(map, value)
           /\ map_written' = With(map_written, id, value)
           /\ map_last' = [op |-> "insert", id |-> id, value |-> value]
           /\ map_overwritten' =
                (map_overwritten \/ IdMap_insert_resized(map)[index(id) + 1] # Uninit)
    /\ UNCHANGED <<map_ended, map_released_uninit, idsVars, storeVars, sceneVars, sliceVars, schedVars>>

\* map.insert(value) panicking
Map_insert_panics ==
    /\ map_ended = "no"
    /\ IdMap_insert_panics(map)
    /\ map_ended' = "panicked"
    /\ map_last' = [op |-> "panic"]
    /\ UNCHANGED <<map, map_written, map_released_uninit, map_overwritten,
                   idsVars, storeVars, sceneVars, sliceVars, schedVars>>

\* *map.get_mut(id).unwrap() = value: the assignment drops what the slot held
Map_get_mut_write(id, value) ==
    /\ map_ended = "no"
    /\ IdMap_get(map, id) # None
    /\ map' = [map EXCEPT !.values[index(id) + 1] = value]
    /\ map_written' = With(map_written, id, value)
    /\ map_last' = [op |-> "write", id |-> id, value |-> value]
    /\ map_released_uninit' = (map_released_uninit \/ map.values[index(id) + 1] = Uninit)
    /\ UNCHANGED <<map_ended, map_overwritten, idsVars, storeVars, sceneVars, sliceVars, schedVars>>

\* map.remove(id) past its assertion.  free_list_size is a usize that len()
\* subtracts from ids.len(): the call is not made once it has reached ids.len()
Map_remove(id) ==
    /\ map_ended = "no"
    /\ IdMap_contains(map, id)
    /\ map.ids.free_list_size < Len(map.ids.ids)
    /\ map' = IdMap_remove(map, id)
    /\ map_written' = Without(map_written, id)
    /\ map_last' = [op |-> "remove", id |-> id,
                    result |-> IdMap_remove_result(map, id),
                    written |-> IF id \in DOMAIN map_written
                                THEN Some(map_written[id]) ELSE None,
                    len_before |-> IdMap_len(map)]
    /\ map_released_uninit' = (map_released_uninit \/ IdMap_remove_result(map, id) = Uninit)
    /\ UNCHANGED <<map_ended, map_overwritten, idsVars, storeVars, sceneVars, sliceVars, schedVars>>

\* map.remove(id) failing assert!(self.contains(id))
Map_remove_panics(id) ==
    /\ map_ended = "no"
    /\ ~IdMap_contains(map, id)
    /\ map_ended' = "panicked"
    /\ map_last' = [op |-> "panic"]
    /\ UNCHANGED <<map, map_written, map_released_uninit, map_overwritten,
                   idsVars, storeVars, sceneVars, sliceVars, schedVars>>

\* the map goes out of scope: Drop for IdMap
Map_drop ==
    /\ map_ended = "no"
    /\ map' = IdMap_drop(map)
    /\ map_ended' = "dropped"
    /\ map_last' = [op |-> "drop"]
    /\ map_released_uninit' =
         (map_released_uninit \/ \E i \in IdMap_drop_slots(map) : map.values[i + 1] = Uninit)
    /\ UNCHANGED <<map_written, map_overwritten, idsVars, storeVars, sceneVars, sliceVars, schedVars>>

MapNext ==
    \/ \E value \in Values : Map_insert(value)
    \/ Map_insert_panics
    \/ \E id \in AllIds, value \in Values : Map_get_mut_write(id, value)
    \/ \E id \in AllIds : Map_remove(id)
    \/ \E id \in AllIds : Map_remove_panics(id)
    \/ Map_drop

(***************************************************************************)
(* The job registry under any sequence of register_job and                 *)
(* add_job_dependency calls; the registry is the IdMap of the map group.   *)
(***************************************************************************)
\* register_job(kind, function)
Reg_register_job(kind) == Map_insert(Job_new(kind))

\* add_job_dependency(job_id, dependency_id)
Reg_add_job_dependency(job_id, dependency_id) ==
    /\ map_ended = "no"
    /\ map' = add_job_dependency(map, job_id, dependency_id)
    /\ map_written' = [id \in DOMAIN map_written |-> IdMap_get(map', id)[1]]
    /\ map_last' = [op |-> "add_job_dependency", id |-> job_id,
                    dependency |-> dependency_id]
    /\ UNCHANGED <<map_ended, map_released_uninit, map_overwritten,
                   idsVars, storeVars, sceneVars, sliceVars, schedVars>>

RegistryNext ==
    \/ \E kind \in JobKinds : Reg_register_job(kind)
    \/ Map_insert_panics
    \/ \E job_id \in AllIds, dependency_id \in AllIds :
           Reg_add_job_dependency(job_id, dependency_id)

(***************************************************************************)
(* A resource registry and the scene built from it.  The registry is the   *)
(* IdMap of the map group.                                                 *)
(***************************************************************************)
SceneInit ==
    /\ scene = None
    /\ scene_last = [op |-> "none"]

\* register_resource::<R>() for a resource type with the label
Res_register_resource(label) == Map_insert(ResourceRegistration(label))

\* Scene::new(instance); one scene is built, by Scene::new or by from_json
Scn_new ==
    /\ map_ended = "no"
    /\ scene_last.op = "none"
    /\ scene' = Some(SceneState_new(map))
    /\ scene_last' = [op |-> "new"]
    /\ UNCHANGED <<idsVars, storeVars, mapVars, sliceVars, schedVars>>

\* Scene::from_json(instance, json): the scene it built is kept when it
\* returns Ok and dropped otherwise
Scn_from_json(json) ==
    /\ map_ended = "no"
    /\ scene_last.op = "none"
    /\ LET result == from_json(map, json)
       IN  /\ scene' = IF result.kind = "Ok" THEN Some(result.scene) ELSE None
           /\ scene_last' = [op |-> "from_json", registry |-> map, json |-> json,
                             kind |-> result.kind,
                             message |-> result.message, label |-> result.label,
                             built |-> result.scene]
    /\ UNCHANGED <<idsVars, storeVars, mapVars, sliceVars, schedVars>>

\* scene.resource_storage(resource_id) returning
Scn_resource_storage(resource_id) ==
    /\ scene # None
    /\ scene_last.op # "panic"
    /\ ~resource_storage_panics(scene[1], resource_id)
    /\ scene_last' = [op |-> "resource_storage", id |-> resource_id,
                      result |-> resource_storage(scene[1], resource_id)]
    /\ UNCHANGED <<scene, idsVars, storeVars, mapVars, sliceVars, schedVars>>

\* scene.resource_storage(resource_id) indexing out of bounds
Scn_resource_storage_panics(resource_id) ==
    /\ scene # None
    /\ scene_last.op # "panic"
    /\ resource_storage_panics(scene[1], resource_id)
    /\ scene_last' = [op |-> "panic", id |-> resource_id]
    /\ UNCHANGED <<scene, idsVars, storeVars, mapVars, sliceVars, schedVars>>

(***************************************************************************)
(* The slice sparse store (core/src/resource/id_mapped_slice_storage.rs):  *)
(* a record [resources, used_blocks, free_blocks]; used_blocks maps        *)
(* id.index() to a UsedBlock [id, offset, size, capacity], free_blocks     *)
(* maps an offset to the size of the free block that starts there.         *)
(***************************************************************************)
MaxSliceLen == 2

MaxSliceCalls == 4

\* the ids the calls are made with: two indices, and two versions of index 0
SliceIds ==
    {from_index_and_version(0, 0), from_index_and_version(1, 0),
     from_index_and_version(0, 1)}

Slices == UNION {[1 .. n -> Values] : n \in 0 .. MaxSliceLen}

SliceStore_new == [resources |-> << >>, used_blocks |-> << >>, free_blocks |-> << >>]

\* allocate_block: the free blocks self.free_blocks.iter().find(..) may return;
\* a HashMap iterates in no particular order, so any large enough block may
\* be the one found
FittingFreeBlocks(st, size) == {offset \in DOMAIN st.free_blocks : st.free_blocks[offset] >= size}

\* an allocation that leaves the free block it took in free_blocks
allocate_block_from_keeping(st, size, offset) ==
    [store |-> st,
     block |-> [id |-> from_index_and_version(0, 0), offset |-> offset,
                size |-> size, capacity |-> size]]

\* allocate_block when find returned the free block at offset
allocate_block_from(st, size, offset) ==
    [store |-> [st EXCEPT !.free_blocks =
                    With(Without(st.free_blocks, offset), offset + size,
                         st.free_blocks[offset] - size)],
     block |-> [id |-> from_index_and_version(0, 0), offset |-> offset,
                size |-> size, capacity |-> size]]

\* allocate_block when find returned None: the vector grows
allocate_block_at_end(st, size) ==
    [store |-> [st EXCEPT !.resources =
                    [k \in 1 .. Len(st.resources) + size |->
                        IF k <= Len(st.resources) THEN st.resources[k] ELSE Uninit]],
     block |-> [id |-> from_index_and_version(0, 0), offset |-> Len(st.resources),
                size |-> size, capacity |-> size]]

\* free_block
free_block(st, block) ==
    [st EXCEPT !.free_blocks = With(st.free_blocks, block.offset, block.capacity)]

\* insert_slice up to allocate_block: the block of the index, if any, is freed
insert_slice_freed(st, id) ==
    IF index(id) \in DOMAIN st.used_blocks
    THEN free_block(st, st.used_blocks[index(id)]) ELSE st

\* insert_slice after allocate_block returned allocated
insert_slice_into(allocated, id, slice) ==
    [allocated.store EXCEPT
        !.resources = [k \in DOMAIN allocated.store.resources |->
                          IF /\ k > allocated.block.offset
                             /\ k <= allocated.block.offset + Len(slice)
                          THEN slice[k - allocated.block.offset]
                          ELSE allocated.store.resources[k]],
        !.used_blocks = With(allocated.store.used_blocks, index(id),
                             [allocated.block EXCEPT !.id = id, !.size = Len(slice)])]

\* get: the cells of the block recorded for id.index()
SliceStore_get(st, id) ==
    IF index(id) \in DOMAIN st.used_blocks
    THEN LET block == st.used_blocks[index(id)]
         IN  Some([k \in 1 .. block.size |-> st.resources[block.offset + k]])
    ELSE None

\* push: its body is empty
SliceStore_push(st, id, resource) == st

(***************************************************************************)
(* A slice sparse store under any sequence of insert_slice and push calls. *)
(***************************************************************************)
SliceInit ==
    /\ slices = SliceStore_new
    /\ slices_written = << >>
    /\ slices_last = [op |-> "new"]
    /\ slices_calls = 0

\* slices.insert_slice(id, slice), allocate_block reusing the free block at offset
Sl_insert_slice_reusing(id, slice, offset) ==
    /\ slices_calls < MaxSliceCalls
    /\ offset \in FittingFreeBlocks(insert_slice_freed(slices, id), Len(slice))
    /\ slices' = insert_slice_into(
                    allocate_block_from(insert_slice_freed(slices, id), Len(slice), offset),
                    id, slice)
    /\ slices_written' = With(slices_written, id, slice)
    /\ slices_last' = [op |-> "insert_slice", id |-> id, slice |-> slice]
    /\ slices_calls' = slices_calls + 1
    /\ UNCHANGED <<idsVars, storeVars, mapVars, sceneVars, schedVars>>

\* slices.insert_slice(id, slice), allocate_block growing the vector
Sl_insert_slice_growing(id, slice) ==
    /\ slices_calls < MaxSliceCalls
    /\ FittingFreeBlocks(insert_slice_freed(slices, id), Len(slice)) = {}
    /\ slices' = insert_slice_into(
                    allocate_block_at_end(insert_slice_freed(slices, id), Len(slice)),
                    id, slice)
    /\ slices_written' = With(slices_written, id, slice)
    /\ slices_last' = [op |-> "insert_slice", id |-> id, slice |-> slice]
    /\ slices_calls' = slices_calls + 1
    /\ UNCHANGED <<idsVars, storeVars, mapVars, sceneVars, schedVars>>

\* slices.push(id, resource) on an id that has a block
Sl_push(id, resource) ==
    /\ slices_calls < MaxSliceCalls
    /\ SliceStore_get(slices, id) # None
    /\ slices' = SliceStore_push(slices, id, resource)
    /\ slices_last' = [op |-> "push", id |-> id, resource |-> resource]
    /\ slices_calls' = slices_calls + 1
    /\ UNCHANGED <<slices_written, idsVars, storeVars, mapVars, sceneVars, schedVars>>

SliceNext ==
    \/ \E id \in SliceIds, slice \in Slices :
           \E offset \in FittingFreeBlocks(insert_slice_freed(slices, id), Len(slice)) :
               Sl_insert_slice_reusing(id, slice, offset)
    \/ \E id \in SliceIds, slice \in Slices : Sl_insert_slice_growing(id, slice)
    \/ \E id \in SliceIds, resource \in Values : Sl_push(id, resource)

(***************************************************************************)
(* The scheduler: worker threads (the closure spawned by Scheduler::new)   *)
(* and the thread calling run_jobs.  Each action is one step between two   *)
(* accesses to shared state (queue mutex, atomics, channels).              *)
(***************************************************************************)
MaxRequests == 2

Executions == (DOMAIN graph) \X (0 .. viewport_count - 1)

SchedInitWith(graphs, worker_counts, viewport_counts, storages) ==
    /\ graph \in graphs
    /\ worker_count \in worker_counts
    /\ viewport_count \in viewport_counts
    /\ game_time = 0
    /\ delta_time = 0
    /\ workers = [w \in 1 .. MaxWorkers |-> IdleWorker]
    /\ available_jobs = << >>
    /\ jobs_finished = 0
    /\ dependencies_finished = [j \in DOMAIN graph |-> 0]
    /\ frame_finished = << >>
    /\ spawned_entities = << >>
    /\ despawned_entities = << >>
    /\ entities \in storages
    /\ caller = "idle"
    /\ frame = 0
    /\ last_result = NoResult
    /\ prev_result = NoResult
    /\ entered = [e \in Executions |-> 0]
    /\ returned = [e \in Executions |-> 0]
    /\ failed = 0
    /\ failed_jobs = {}
    /\ requested = [spawned |-> 0, despawned |-> 0]
    /\ at_call = [entities |-> entities, spawned |-> << >>, despawned |-> << >>]
    /\ drained = [despawned |-> << >>, spawned |-> 0]
    /\ textures = [v \in 0 .. viewport_count - 1 |-> None]
    /\ tick_frame = 0

\* a scheduler that is built and never run
SchedUnused == SchedInitWith({OneJob}, {1}, {1}, {IdStorage_new})

Parked == {x \in 1 .. worker_count : workers[x].pc = "parked"}

\* the worker's position after the successor it has just handled
AfterSuccessor(wk) ==
    IF wk.succ < Len(required_for(graph, wk.job_index))
    THEN [wk EXCEPT !.pc = "successors", !.succ = @ + 1, !.vp = 0]
    ELSE IdleWorker

\* history: returned, once the execution worker wk is running has returned
ReturnedAfter(wk) ==
    IF wk.pushed = frame
    THEN [returned EXCEPT ![<<wk.job_index, wk.viewport_id>>] = @ + 1]
    ELSE returned

\* wait_mut finds a scheduled job: pop it and enter the job function
W_pop(w) ==
    /\ workers[w].pc = "idle"
    /\ available_jobs # << >>
    /\ LET job == Head(available_jobs)
       IN  /\ workers' = [workers EXCEPT ![w] =
                  [IdleWorker EXCEPT !.pc = "running", !.job_index = job.job_index,
                                     !.viewport_id = job.viewport_id,
                                     !.pushed = job.pushed,
                                     !.game_time = game_time,
                                     !.delta_time = delta_time]]
           /\ entered' = IF job.pushed = frame
                         THEN [entered EXCEPT ![<<job.job_index, job.viewport_id>>] = @ + 1]
                         ELSE entered
    /\ available_jobs' = Tail(available_jobs)
    /\ UNCHANGED <<idsVars, storeVars, mapVars, sceneVars, sliceVars, tickVars, configVars, timeVars, counterVars, frame_finished,
                   entityVars, callerVars, returned, failed, failed_jobs, requested, at_call, drained>>

\* wait_mut finds the queue empty: wait on the condition variable
W_park(w) ==
    /\ workers[w].pc = "idle"
    /\ available_jobs = << >>
    /\ workers' = [workers EXCEPT ![w].pc = "parked"]
    /\ UNCHANGED <<idsVars, storeVars, mapVars, sceneVars, sliceVars, tickVars, configVars, timeVars, available_jobs, counterVars,
                   frame_finished, entityVars, callerVars, historyVars>>

\* Condvar::wait returns without a notification; the predicate is re-checked
W_spurious_wakeup(w) ==
    /\ workers[w].pc = "parked"
    /\ workers' = [workers EXCEPT ![w] = IdleWorker]
    /\ UNCHANGED <<idsVars, storeVars, mapVars, sceneVars, sliceVars, tickVars, configVars, timeVars, available_jobs, counterVars,
                   frame_finished, entityVars, callerVars, historyVars>>

\* the job function returns Err: the error is sent and the loop restarts
W_job_err(w) ==
    /\ workers[w].pc = "running"
    /\ frame_finished' = Append(frame_finished,
           ErrResult(workers[w].job_index, workers[w].viewport_id, workers[w].pushed))
    /\ returned' = ReturnedAfter(workers[w])
    /\ failed' = IF workers[w].pushed = frame THEN failed + 1 ELSE failed
    /\ failed_jobs' = IF workers[w].pushed = frame
                      THEN failed_jobs \cup {workers[w].job_index}
                      ELSE failed_jobs
    /\ workers' = [workers EXCEPT ![w] = IdleWorker]
    /\ UNCHANGED <<idsVars, storeVars, mapVars, sceneVars, sliceVars, tickVars, configVars, timeVars, available_jobs, counterVars,
                   entityVars, callerVars, entered, requested, at_call, drained>>

\* the job function returns Ok: jobs_finished.fetch_add, then either the
\* frame's Ok is sent or the successors are visited
W_job_ok(w) ==
    /\ workers[w].pc = "running"
    /\ returned' = ReturnedAfter(workers[w])
    /\ jobs_finished' = jobs_finished + 1
    /\ IF jobs_finished + 1 = ExpectedJobsFinished(graph, viewport_count)
       THEN /\ frame_finished' = Append(frame_finished, OkResult)
            /\ workers' = [workers EXCEPT ![w] = IdleWorker]
       ELSE /\ frame_finished' = frame_finished
            /\ workers' = [workers EXCEPT ![w] =
                   AfterSuccessor([workers[w] EXCEPT !.succ = 0])]
    /\ UNCHANGED <<idsVars, storeVars, mapVars, sceneVars, sliceVars, tickVars, configVars, timeVars, available_jobs, dependencies_finished,
                   entityVars, callerVars, entered, failed, failed_jobs, requested, at_call, drained>>

\* dependencies_finished.fetch_add of the next successor, compared with its
\* saturation value
W_successor(w) ==
    /\ workers[w].pc = "successors"
    /\ LET s == required_for(graph, workers[w].job_index)[workers[w].succ]
       IN  /\ dependencies_finished' = [dependencies_finished EXCEPT ![s] = @ + 1]
           /\ workers' = [workers EXCEPT ![w] =
                  IF dependencies_finished[s] = Saturation(graph, s, viewport_count) - 1
                  THEN [workers[w] EXCEPT !.pc = "push", !.vp = 1]
                  ELSE AfterSuccessor(workers[w])]
    /\ UNCHANGED <<idsVars, storeVars, mapVars, sceneVars, sliceVars, tickVars, configVars, timeVars, available_jobs, jobs_finished,
                   frame_finished, entityVars, callerVars, historyVars>>

\* mutate_and_notify_one, first half: push one ScheduledJob under the mutex
W_push(w) ==
    /\ workers[w].pc = "push"
    /\ LET s == required_for(graph, workers[w].job_index)[workers[w].succ]
       IN  available_jobs' = Append(available_jobs,
               StemmingFrom(ScheduledJobsOf(s, viewport_count),
                            workers[w].pushed)[workers[w].vp])
    /\ workers' = [workers EXCEPT ![w].pc = "notify"]
    /\ UNCHANGED <<idsVars, storeVars, mapVars, sceneVars, sliceVars, tickVars, configVars, timeVars, counterVars, frame_finished,
                   entityVars, callerVars, historyVars>>

\* mutate_and_notify_one, second half: notify_one wakes one waiting worker
W_notify(w) ==
    /\ workers[w].pc = "notify"
    /\ LET s == required_for(graph, workers[w].job_index)[workers[w].succ]
           next == IF workers[w].vp < Len(ScheduledJobsOf(s, viewport_count))
                   THEN [workers[w] EXCEPT !.pc = "push", !.vp = @ + 1]
                   ELSE AfterSuccessor(workers[w])
       IN  IF Parked = {}
           THEN workers' = [workers EXCEPT ![w] = next]
           ELSE \E x \in Parked :
                    workers' = [workers EXCEPT ![w] = next, ![x] = IdleWorker]
    /\ UNCHANGED <<idsVars, storeVars, mapVars, sceneVars, sliceVars, tickVars, configVars, timeVars, available_jobs, counterVars,
                   frame_finished, entityVars, callerVars, historyVars>>

\* the running job function sends a spawn request
W_job_spawn(w) ==
    /\ workers[w].pc = "running"
    /\ Len(spawned_entities) < MaxRequests
    /\ spawned_entities' = Append(spawned_entities, frame)
    /\ requested' = [requested EXCEPT !.spawned = @ + 1]
    /\ UNCHANGED <<idsVars, storeVars, mapVars, sceneVars, sliceVars, tickVars, configVars, timeVars, queueVars, counterVars,
                   frame_finished, despawned_entities, entities, callerVars,
                   entered, returned, failed, failed_jobs, at_call, drained>>

\* the running job function sends a despawn request
W_job_despawn(w, id) ==
    /\ workers[w].pc = "running"
    /\ Len(despawned_entities) < MaxRequests
    /\ despawned_entities' = Append(despawned_entities, [id |-> id, frame |-> frame])
    /\ requested' = [requested EXCEPT !.despawned = @ + 1]
    /\ UNCHANGED <<idsVars, storeVars, mapVars, sceneVars, sliceVars, tickVars, configVars, timeVars, queueVars, counterVars,
                   frame_finished, spawned_entities, entities, callerVars,
                   entered, returned, failed, failed_jobs, at_call, drained>>

\* the despawn loop of run_jobs over the requests queued when it runs:
\* entities.free for each, stopping at the first failing assertion
RECURSIVE DrainDespawned(_, _)
DrainDespawned(st, requests) ==
    IF requests = << >>
    THEN [entities |-> st, panicked |-> FALSE, rest |-> << >>]
    ELSE IF ~IdStorage_contains(st, Head(requests).id)
         THEN [entities |-> st, panicked |-> TRUE, rest |-> Tail(requests)]
         ELSE DrainDespawned(IdStorage_free(st, Head(requests).id), Tail(requests))

\* the spawn loop of run_jobs: entities.reserve() for each request
RECURSIVE DrainSpawned(_, _)
DrainSpawned(st, requests) ==
    IF requests = << >>
    THEN [entities |-> st, panicked |-> FALSE, rest |-> << >>]
    ELSE IF IdStorage_reserve_panics(st)
         THEN [entities |-> st, panicked |-> TRUE, rest |-> Tail(requests)]
         ELSE DrainSpawned(IdStorage_reserve(st), Tail(requests))

\* run_jobs up to the queue: publish the times, reset the counters
C_run_jobs(limit) ==
    /\ caller = "idle"
    /\ frame < limit
    /\ frame' = frame + 1
    /\ game_time' = game_time_of_call(frame + 1)
    /\ delta_time' = delta_time_of_call(frame + 1)
    /\ jobs_finished' = 0
    /\ dependencies_finished' = [j \in DOMAIN graph |-> 0]
    /\ caller' = "push_roots"
    /\ entered' = [e \in Executions |-> 0]
    /\ returned' = [e \in Executions |-> 0]
    /\ failed' = 0
    /\ failed_jobs' = {}
    /\ requested' = [spawned |-> 0, despawned |-> 0]
    /\ at_call' = [entities |-> entities, spawned |-> spawned_entities,
                   despawned |-> despawned_entities]
    /\ drained' = [despawned |-> << >>, spawned |-> 0]
    /\ UNCHANGED <<idsVars, storeVars, mapVars, sceneVars, sliceVars, tickVars, configVars, queueVars, frame_finished,
                   entityVars, last_result, prev_result>>

\* mutate_and_notify_all, first half: push every root job under the mutex
C_push_roots ==
    /\ caller = "push_roots"
    /\ available_jobs' =
           available_jobs \o StemmingFrom(RootScheduledJobs(graph, viewport_count), frame)
    /\ caller' = "notify_all"
    /\ UNCHANGED <<idsVars, storeVars, mapVars, sceneVars, sliceVars, tickVars, configVars, timeVars, workers, counterVars, frame_finished,
                   entityVars, frame, last_result, prev_result, historyVars>>

\* run_jobs going on to recv() with nobody woken
C_notify_nobody ==
    /\ caller = "notify_all"
    /\ caller' = "recv"
    /\ UNCHANGED <<idsVars, storeVars, mapVars, sceneVars, sliceVars, tickVars, configVars, timeVars, queueVars, counterVars,
                   frame_finished, entityVars, frame, last_result, prev_result,
                   historyVars>>

\* mutate_and_notify_all, second half: notify_all wakes every waiting worker
C_notify_all ==
    /\ caller = "notify_all"
    /\ workers' = [x \in DOMAIN workers |->
                      IF workers[x].pc = "parked" THEN IdleWorker ELSE workers[x]]
    /\ caller' = "recv"
    /\ UNCHANGED <<idsVars, storeVars, mapVars, sceneVars, sliceVars, tickVars, configVars, timeVars, available_jobs, counterVars,
                   frame_finished, entityVars, frame, last_result, prev_result,
                   historyVars>>

\* recv() with the request channels emptied before an Err is returned
C_recv_discarding_requests ==
    /\ caller = "recv"
    /\ frame_finished # << >>
    /\ frame_finished' = Tail(frame_finished)
    /\ IF Head(frame_finished).kind = "Err"
       THEN /\ caller' = "idle"
            /\ last_result' = Head(frame_finished)
            /\ prev_result' = last_result
            /\ spawned_entities' = << >>
            /\ despawned_entities' = << >>
       ELSE /\ caller' = "drain_despawned"
            /\ UNCHANGED <<last_result, prev_result, spawned_entities, despawned_entities>>
    /\ UNCHANGED <<idsVars, storeVars, mapVars, sceneVars, sliceVars, tickVars, configVars, timeVars, queueVars, counterVars,
                   entities, frame, historyVars>>

\* frame_finished.recv(): an Err is returned at once, an Ok leads to the
\* entity bookkeeping
C_recv ==
    /\ caller = "recv"
    /\ frame_finished # << >>
    /\ frame_finished' = Tail(frame_finished)
    /\ IF Head(frame_finished).kind = "Err"
       THEN /\ caller' = "idle"
            /\ last_result' = Head(frame_finished)
            /\ prev_result' = last_result
       ELSE /\ caller' = "drain_despawned"
            /\ UNCHANGED <<last_result, prev_result>>
    /\ UNCHANGED <<idsVars, storeVars, mapVars, sceneVars, sliceVars, tickVars, configVars, timeVars, queueVars, counterVars,
                   entityVars, frame, historyVars>>

\* the despawn loop runs to the end of the channel
C_drain_despawned ==
    /\ caller = "drain_despawned"
    /\ ~DrainDespawned(entities, despawned_entities).panicked
    /\ entities' = DrainDespawned(entities, despawned_entities).entities
    /\ despawned_entities' = << >>
    /\ drained' = [drained EXCEPT !.despawned = despawned_entities]
    /\ caller' = "drain_spawned"
    /\ UNCHANGED <<idsVars, storeVars, mapVars, sceneVars, sliceVars, tickVars, configVars, timeVars, queueVars, counterVars,
                   frame_finished, spawned_entities, frame, last_result, prev_result,
                   entered, returned, failed, failed_jobs, requested, at_call>>

\* the despawn loop stops at a failing assert!(self.contains(id))
C_drain_despawned_panics ==
    /\ caller = "drain_despawned"
    /\ DrainDespawned(entities, despawned_entities).panicked
    /\ entities' = DrainDespawned(entities, despawned_entities).entities
    /\ despawned_entities' = DrainDespawned(entities, despawned_entities).rest
    /\ caller' = "panicked"
    /\ UNCHANGED <<idsVars, storeVars, mapVars, sceneVars, sliceVars, tickVars, configVars, timeVars, queueVars, counterVars,
                   frame_finished, spawned_entities, frame, last_result, prev_result,
                   historyVars>>

\* the spawn loop runs to the end of the channel and run_jobs returns Ok(())
C_drain_spawned ==
    /\ caller = "drain_spawned"
    /\ ~DrainSpawned(entities, spawned_entities).panicked
    /\ entities' = DrainSpawned(entities, spawned_entities).entities
    /\ spawned_entities' = << >>
    /\ caller' = "idle"
    /\ last_result' = OkResult
    /\ prev_result' = last_result
    /\ drained' = [drained EXCEPT !.spawned = Len(spawned_entities)]
    /\ UNCHANGED <<idsVars, storeVars, mapVars, sceneVars, sliceVars, tickVars, configVars, timeVars, queueVars, counterVars,
                   frame_finished, despawned_entities, frame,
                   entered, returned, failed, failed_jobs, requested, at_call>>

\* the spawn loop stops at a failing assertion of reserve
C_drain_spawned_panics ==
    /\ caller = "drain_spawned"
    /\ DrainSpawned(entities, spawned_entities).panicked
    /\ entities' = DrainSpawned(entities, spawned_entities).entities
    /\ spawned_entities' = DrainSpawned(entities, spawned_entities).rest
    /\ caller' = "panicked"
    /\ UNCHANGED <<idsVars, storeVars, mapVars, sceneVars, sliceVars, tickVars, configVars, timeVars, queueVars, counterVars,
                   frame_finished, despawned_entities, frame, last_result, prev_result,
                   historyVars>>

\* the frame texture and view tick acquires for a viewport
AcquiredTexture == Some("texture")

\* the workers holding the read guard of the viewport map: it is taken after
\* the pop and dropped at the end of the loop body
ViewportReaders == {w \in 1 .. worker_count : workers[w].pc \notin {"idle", "parked"}}

\* Scene::tick up to run_jobs: under the write guard of the viewport map the
\* current texture of every viewport is acquired and a view created
T_acquire(limit) ==
    /\ caller = "idle"
    /\ tick_frame = frame
    /\ frame < limit
    /\ ViewportReaders = {}
    /\ textures' = [v \in DOMAIN textures |-> AcquiredTexture]
    /\ tick_frame' = frame + 1
    /\ UNCHANGED <<idsVars, storeVars, mapVars, sceneVars, sliceVars, configVars, timeVars,
                   queueVars, counterVars, frame_finished, entityVars, callerVars,
                   historyVars>>

\* Scene::tick calling run_jobs
T_run_jobs ==
    /\ tick_frame = frame + 1
    /\ C_run_jobs(tick_frame)

\* Scene::tick after run_jobs has returned, Ok or Err: under the write guard
\* the views are dropped and the textures presented
T_present ==
    /\ caller = "idle"
    /\ tick_frame = frame
    /\ \E v \in DOMAIN textures : textures[v] # None
    /\ ViewportReaders = {}
    /\ textures' = [v \in DOMAIN textures |-> None]
    /\ UNCHANGED <<idsVars, storeVars, mapVars, sceneVars, sliceVars, tick_frame, configVars,
                   timeVars, queueVars, counterVars, frame_finished, entityVars,
                   callerVars, historyVars>>

\* one step of worker w other than a spurious wake-up, jobs always succeeding
WorkerStep(w) ==
    \/ W_pop(w)
    \/ W_park(w)
    \/ W_job_ok(w)
    \/ W_successor(w)
    \/ W_push(w)
    \/ W_notify(w)

\* one step of the thread inside run_jobs
CallerStep ==
    \/ C_push_roots
    \/ C_notify_all
    \/ C_recv
    \/ C_drain_despawned
    \/ C_drain_spawned

\* jobs that always succeed and request nothing
NextAllSucceed ==
    \/ C_run_jobs(MaxFrames)
    \/ C_push_roots
    \/ C_notify_all
    \/ C_recv
    \/ C_drain_despawned
    \/ C_drain_spawned
    \/ \E w \in 1 .. worker_count : W_pop(w)
    \/ \E w \in 1 .. worker_count : W_park(w)
    \/ \E w \in 1 .. worker_count : W_spurious_wakeup(w)
    \/ \E w \in 1 .. worker_count : W_job_ok(w)
    \/ \E w \in 1 .. worker_count : W_successor(w)
    \/ \E w \in 1 .. worker_count : W_push(w)
    \/ \E w \in 1 .. worker_count : W_notify(w)

\* jobs that may fail
Next ==
    \/ NextAllSucceed
    \/ \E w \in 1 .. worker_count : W_job_err(w)

\* jobs that may fail and may request spawns and despawns
NextEntities ==
    \/ Next
    \/ \E w \in 1 .. worker_count : W_job_spawn(w)
    \/ \E w \in 1 .. worker_count, id \in AllIds : W_job_despawn(w, id)
    \/ C_drain_despawned_panics
    \/ C_drain_spawned_panics

(***************************************************************************)
(* Specifications                                                          *)
(***************************************************************************)
Init == IdsInit /\ StoreInit /\ MapInit /\ SceneInit /\ SliceInit /\ SchedUnused

InitScheduler ==
    /\ IdsInit
    /\ StoreInit
    /\ MapInit
    /\ SceneInit
    /\ SliceInit
    /\ SchedInitWith(SmallJobGraphs, 1 .. MaxWorkers, 1 .. MaxViewports, {IdStorage_new})

InitEntities ==
    /\ IdsInit
    /\ StoreInit
    /\ MapInit
    /\ SceneInit
    /\ SliceInit
    /\ \/ SchedInitWith({OneJob}, 1 .. MaxWorkers, 1 .. MaxViewports,
                        {IdStorage_new, IdStorage_reserve(IdStorage_new)})
       \/ SchedInitWith({TwoJobChain}, {1}, {1},
                        {IdStorage_new, IdStorage_reserve(IdStorage_new)})

InitAllSucceed ==
    /\ IdsInit
    /\ StoreInit
    /\ MapInit
    /\ SceneInit
    /\ SliceInit
    /\ SchedInitWith(JobGraphs, 1 .. MaxWorkers, 1 .. MaxViewports, {IdStorage_new})

\* the scheduler with jobs that may fail
Spec == InitScheduler /\ [][Next]_vars

\* the scheduler with jobs that may fail and request spawns and despawns, over
\* no entity or the one entity an earlier frame has spawned: one job on any
\* number of workers and viewports, or two chained jobs on one worker and viewport
SpecEntities == InitEntities /\ [][NextEntities]_vars

\* the scheduler with jobs that always succeed, every thread that can take a
\* step eventually taking one
SpecAllSucceed ==
    /\ InitAllSucceed
    /\ [][NextAllSucceed]_vars
    /\ WF_vars(CallerStep)
    /\ \A w \in 1 .. MaxWorkers : WF_vars(w <= worker_count /\ WorkerStep(w))

\* an IdStorage under any sequence of reserve / free calls
SpecIdStorage == Init /\ [][IdsNext]_vars

\* a sparse store under any sequence of insert / remove calls
SpecStore == Init /\ [][StoreNext]_vars

\* an IdMap under any sequence of calls
SpecIdMap == Init /\ [][MapNext]_vars

\* the job registry under any sequence of calls
SpecRegistry == Init /\ [][RegistryNext]_vars

\* a resource registry and the scene built from it
SceneNext ==
    \/ \E label \in Labels : Res_register_resource(label)
    \/ Map_insert_panics
    \/ Scn_new
    \/ \E json \in JsonDocuments : Scn_from_json(json)
    \/ \E resource_id \in AllIds : Scn_resource_storage(resource_id)
    \/ \E resource_id \in AllIds : Scn_resource_storage_panics(resource_id)

SpecScene == Init /\ [][SceneNext]_vars

\* a slice sparse store under any sequence of calls
SpecSlices == Init /\ [][SliceNext]_vars

\* Scene::tick called again and again over jobs that may fail
NextTick ==
    \/ T_acquire(MaxFrames)
    \/ T_run_jobs
    \/ T_present
    \/ C_push_roots
    \/ C_notify_all
    \/ C_recv
    \/ C_drain_despawned
    \/ C_drain_spawned
    \/ \E w \in 1 .. worker_count : W_pop(w)
    \/ \E w \in 1 .. worker_count : W_park(w)
    \/ \E w \in 1 .. worker_count : W_spurious_wakeup(w)
    \/ \E w \in 1 .. worker_count : W_job_ok(w)
    \/ \E w \in 1 .. worker_count : W_job_err(w)
    \/ \E w \in 1 .. worker_count : W_successor(w)
    \/ \E w \in 1 .. worker_count : W_push(w)
    \/ \E w \in 1 .. worker_count : W_notify(w)

SpecTick == InitScheduler /\ [][NextTick]_vars

\* Scene::tick called again and again over jobs that always succeed
NextTickAllSucceed ==
    \/ T_acquire(MaxFrames)
    \/ T_run_jobs
    \/ T_present
    \/ C_push_roots
    \/ C_notify_all
    \/ C_recv
    \/ C_drain_despawned
    \/ C_drain_spawned
    \/ \E w \in 1 .. worker_count : W_pop(w)
    \/ \E w \in 1 .. worker_count : W_park(w)
    \/ \E w \in 1 .. worker_count : W_spurious_wakeup(w)
    \/ \E w \in 1 .. worker_count : W_job_ok(w)
    \/ \E w \in 1 .. worker_count : W_successor(w)
    \/ \E w \in 1 .. worker_count : W_push(w)
    \/ \E w \in 1 .. worker_count : W_notify(w)

SpecTickAllSucceed == InitScheduler /\ [][NextTickAllSucceed]_vars

\* schedulers over no job or over no viewport, next to those that have both
NoJob == << >>

InitStarved ==
    /\ IdsInit
    /\ StoreInit
    /\ MapInit
    /\ SceneInit
    /\ SliceInit
    /\ SchedInitWith({NoJob, OneJob, TwoJobChain}, 1 .. MaxWorkers, 0 .. MaxViewports,
                     {IdStorage_new})

SpecStarved == InitStarved /\ [][Next]_vars

\* one job per viewport that may fail, over one frame more than MaxFrames
NextOneJob ==
    \/ C_run_jobs(MaxFrames + 1)
    \/ C_push_roots
    \/ C_notify_all
    \/ C_recv
    \/ C_drain_despawned
    \/ C_drain_spawned
    \/ \E w \in 1 .. worker_count : W_pop(w)
    \/ \E w \in 1 .. worker_count : W_park(w)
    \/ \E w \in 1 .. worker_count : W_spurious_wakeup(w)
    \/ \E w \in 1 .. worker_count : W_job_ok(w)
    \/ \E w \in 1 .. worker_count : W_job_err(w)

InitOneJob ==
    /\ IdsInit
    /\ StoreInit
    /\ MapInit
    /\ SceneInit
    /\ SliceInit
    /\ SchedInitWith({OneJob}, 1 .. MaxWorkers, 1 .. MaxViewports, {IdStorage_new})

SpecOneJob == InitOneJob /\ [][NextOneJob]_vars

\* schedulers built over registries with and without a cyclic dependency
InitCyclic ==
    /\ IdsInit
    /\ StoreInit
    /\ MapInit
    /\ SceneInit
    /\ SliceInit
    /\ SchedInitWith(CyclicJobGraphs \cup {OneJob}, 1 .. MaxWorkers, 1 .. MaxViewports,
                     {IdStorage_new})

SpecCyclic == InitCyclic /\ [][NextOneJob]_vars


(***************************************************************************)
(* Claims about IdStorage                                                  *)
(***************************************************************************)

C9_ContainsIffLive ==
    \A id \in AllIds : IdStorage_contains(storage, id) <=> id \in ids_live


(***************************************************************************)
(* Claims about the single-value sparse store                              *)
(***************************************************************************)

\* C10: after insert(id, v) get(id) is Some(v); remove(id) returns the value
\* get(id) gave and afterwards get(id) is None; the call leaves get(e)
\* unchanged for every other id e.
C10_InsertGetRemove ==
    [][ /\ store_last'.op = "insert" =>
              /\ Store_get(store', store_last'.id) = Some(store_last'.resource)
              /\ \A e \in AllIds \ {store_last'.id} :
                     Store_get(store', e) = Store_get(store, e)
        /\ store_last'.op = "remove" =>
              /\ store_last'.result = Store_get(store, store_last'.id)
              /\ Store_get(store', store_last'.id) = None
              /\ \A e \in AllIds \ {store_last'.id} :
                     Store_get(store', e) = Store_get(store, e)
      ]_vars


(***************************************************************************)
(* Claims about the scheduler                                              *)
(***************************************************************************)
ViewportIndices == 0 .. viewport_count - 1

Returned == caller = "idle" /\ frame > 0

\* C1: within a frame, when an execution of a job has been entered, every
\* execution (one per viewport) of each of its dependencies has returned.  The
\* executions of a frame are those that stem from its run_jobs call.
C1_DependenciesReturnedFirst ==
    \A e \in Executions :
        entered[e] > 0 =>
            \A p \in graph[e[1]], v \in ViewportIndices : returned[<<p, v>>] > 0

\* C2: a run_jobs call enters every (job, viewport) execution exactly once:
\* never twice, and each of them once by the time it returns Ok.
C2_ExactlyOncePerFrame ==
    /\ \A e \in Executions : entered[e] <= 1
    /\ (Returned /\ last_result.kind = "Ok") => \A e \in Executions : entered[e] = 1

\* C4: when two or more executions of a frame fail, the run_jobs call of that
\* frame returns Err with the error of an execution of that frame.
C4_ErrOfTheSameFrame ==
    (Returned /\ failed >= 2) =>
        /\ last_result.kind = "Err"
        /\ last_result.frame = frame

\* C5: a run_jobs call that follows a call that returned Err, and whose
\* executions all run and succeed, returns Ok.
C5_OkAfterFailedFrame ==
    ( /\ Returned
      /\ prev_result.kind = "Err"
      /\ failed = 0
      /\ \A e \in Executions : returned[e] = 1 ) => last_result.kind = "Ok"

\* C3: with jobs that all succeed, every run_jobs call eventually returns Ok
\* having received the one frame result there is; the channel never holds a
\* second result nor an Err.
C3_EveryCallReturnsOk ==
    /\ [](Len(frame_finished) <= 1)
    /\ [](\A k \in DOMAIN frame_finished : frame_finished[k] = OkResult)
    /\ (caller # "idle") ~>
           (caller = "idle" /\ last_result = OkResult /\ frame_finished = << >>)

\* the second call has returned Ok over the three-job graph, two viewports
\* and two workers, one of them waiting on the condition variable
C3_Witness ==
    /\ Returned
    /\ frame = 2
    /\ last_result = OkResult
    /\ Len(graph) = 3
    /\ viewport_count = 2
    /\ worker_count = 2
    /\ Parked # {}

(***************************************************************************)
(* Claims about the entity bookkeeping of run_jobs                         *)
(***************************************************************************)
DrainedIds == {drained.despawned[k].id : k \in DOMAIN drained.despawned}

\* C6: after a call that returned Ok and whose bookkeeping applied s spawn
\* requests and d despawn requests of distinct live ids, the live-entity count
\* has changed by s - d and no despawned id is contained.
C6_CountAndDespawnedGone ==
    ( /\ Returned
      /\ last_result.kind = "Ok"
      /\ Cardinality(DrainedIds) = Len(drained.despawned)
      /\ \A id \in DrainedIds : IdStorage_contains(at_call.entities, id) ) =>
        /\ IdStorage_len(entities) =
               IdStorage_len(at_call.entities) + drained.spawned - Len(drained.despawned)
        /\ \A id \in DrainedIds : ~IdStorage_contains(entities, id)

\* C7: when run_jobs has returned Err, the entity storage is as it was when the
\* call began and every request sent since is queued behind those queued then;
\* when it has returned Ok, no request of an earlier frame is still queued and
\* the live-entity count has moved by the requests taken off the channels.
C7_BookkeepingOnlyOnOk ==
    /\ (Returned /\ last_result.kind = "Err") =>
           /\ entities = at_call.entities
           /\ spawned_entities =
                  at_call.spawned \o [k \in 1 .. requested.spawned |-> frame]
           /\ Len(despawned_entities) = Len(at_call.despawned) + requested.despawned
           /\ SubSeq(despawned_entities, 1, Len(at_call.despawned)) = at_call.despawned
    /\ (Returned /\ last_result.kind = "Ok") =>
           /\ \A k \in DOMAIN spawned_entities : spawned_entities[k] = frame
           /\ \A k \in DOMAIN despawned_entities : despawned_entities[k].frame = frame
           /\ IdStorage_len(entities) = IdStorage_len(at_call.entities)
                  + (Len(at_call.spawned) + requested.spawned - Len(spawned_entities))
                  - (Len(at_call.despawned) + requested.despawned - Len(despawned_entities))

\* a call returned Err leaving requests queued, and the next call returned Ok
\* having applied them
C7_Witness ==
    /\ Returned
    /\ prev_result.kind = "Err"
    /\ last_result.kind = "Ok"
    /\ at_call.spawned # << >>
    /\ at_call.despawned # << >>
    /\ drained.spawned > 0
    /\ drained.despawned # << >>

(***************************************************************************)
(* Further claims about the sparse store                                   *)
(***************************************************************************)
\* number of reverse entries that mark a present value
Store_live_count(st) ==
    Cardinality({k \in DOMAIN st.reverse_array : version(st.reverse_array[k]) # 0})

\* C11: an insert that directly follows an insert for the same id returns the
\* value of the first, get then returns the value of the second, and neither
\* the number of live entries nor the dense length changes.
C11_ReinsertOverwrites ==
    [][ ( /\ store_last.op = "insert"
          /\ store_last'.op = "insert"
          /\ store_last'.id = store_last.id ) =>
            /\ store_last'.result = Some(store_last.resource)
            /\ Store_get(store', store_last'.id) = Some(store_last'.resource)
            /\ Len(store'.resources) = Len(store.resources)
            /\ Len(store'.forward_array) = Len(store.forward_array)
            /\ Store_live_count(store') = Store_live_count(store)
      ]_vars

\* an insert has replaced a different value that this exact id had stored
C11_Witness ==
    /\ store_last.op = "insert"
    /\ store_last.result # None
    /\ store_last.result # Some(store_last.resource)
    /\ store.forward_array[index(store.reverse_array[index(store_last.id) + 1]) + 1]
           = store_last.id

\* the (id, value) pairs the reverse array marks present, by dense position
Store_live_pairs(st) ==
    { <<st.forward_array[index(st.reverse_array[k]) + 1],
        st.resources[index(st.reverse_array[k]) + 1]>> :
          k \in {j \in DOMAIN st.reverse_array : version(st.reverse_array[j]) # 0} }

Occurrences(seq, x) == Cardinality({k \in DOMAIN seq : seq[k] = x})

\* C12: iter() yields every live (id, value) pair exactly once and nothing else.
C12_IterYieldsLivePairs ==
    /\ \A pair \in Store_live_pairs(store) : Occurrences(Store_iter(store), pair) = 1
    /\ \A k \in DOMAIN Store_iter(store) : Store_iter(store)[k] \in Store_live_pairs(store)

\* the ids that share the index of id and differ from it in the version
OtherVersions(id) == {e \in AllIds : index(e) = index(id) /\ version(e) # version(id)}

\* C13: once insert(e, v) has returned, an id with the index of e and another
\* version is absent: get returns None for it, and a remove or insert called
\* with it next returns None and leaves the value of e in place.
C13_OtherVersionIsAbsent ==
    [][ store_last.op = "insert" =>
          \A e \in OtherVersions(store_last.id) :
              /\ Store_get(store, e) = None
              /\ (store_last'.op \in {"insert", "remove"} /\ store_last'.id = e) =>
                     /\ store_last'.result = None
                     /\ Store_get(store', store_last.id) = Some(store_last.resource)
      ]_vars


(***************************************************************************)
(* Claims about IdMap and about iterating an IdStorage                     *)
(***************************************************************************)
\* C14: in an IdMap, get(id) and get_mut(id) return Some exactly when
\* contains(id) holds, and then the value most recently written for that id;
\* remove(id) returns the value stored for the id it removes, and after it
\* get(id) is None and len() is one less than before.
C14_GetAndRemove ==
    /\ \A id \in AllIds : (IdMap_get(map, id) # None) <=> IdMap_contains(map, id)
    /\ map_ended = "no" =>
         \A id \in DOMAIN map_written : IdMap_get(map, id) = Some(map_written[id])
    /\ map_last.op = "remove" =>
         /\ Some(map_last.result) = map_last.written
         /\ IdMap_get(map, map_last.id) = None
         /\ IdMap_len(map) = map_last.len_before - 1


\* C15: every value inserted into an IdMap is released exactly once: remove
\* hands the value of a live slot back, dropping the map drops exactly the
\* values that are still stored, and no slot is released while it holds no
\* value or written over while it holds one.
C15_ReleasedExactlyOnce ==
    /\ ~map_released_uninit
    /\ ~map_overwritten
    /\ map_ended = "dropped" => \A k \in DOMAIN map.values : map.values[k] = Uninit


\* C16: iterating an IdStorage yields exactly the ids for which contains(id)
\* holds, each once, in ascending index order, and len() equals the number
\* of ids yielded.
C16_IterYieldsContained ==
    LET yielded == IdStorage_iter(storage)
    IN  /\ \A id \in AllIds :
              Occurrences(yielded, id) = IF IdStorage_contains(storage, id) THEN 1 ELSE 0
        /\ \A k \in 1 .. Len(yielded) - 1 : index(yielded[k]) < index(yielded[k + 1])
        /\ IdStorage_len(storage) = Len(yielded)


\* C17: free(id) on an id that is not live (never issued, already freed, or
\* a stale version of a reissued slot) never gets past its assertion: no
\* step is a free(id) that modifies the storage for such an id, and the
\* failing call leaves every field of the storage as it was.
C17_FreeOfAbsentIdAsserts ==
    [][ \A id \in AllIds \ ids_live :
            /\ ~Ids_free(id)
            /\ Ids_free_panics(id) => storage' = storage ]_vars


\* the slots of the storage that hold no live id
FreeSlots == {i \in 0 .. Len(storage.ids) - 1 : \A id \in ids_live : index(id) # i}

\* C18: reserve never returns an id whose index exceeds MAX_INDEX; while a
\* free slot exists reserve returns an id of a free slot without growing the
\* storage and does not fail; when all indices 0 .. MAX_INDEX are live,
\* reserve fails instead of returning an id.
C18_ReserveWithinMaxIndex ==
    [][ /\ Ids_reserve =>
              /\ index(IdStorage_reserve_id(storage)) <= MAX_INDEX
              /\ FreeSlots # {} =>
                    /\ index(IdStorage_reserve_id(storage)) \in FreeSlots
                    /\ Len(storage'.ids) = Len(storage.ids)
        /\ FreeSlots # {} => ~Ids_reserve_panics
        /\ {index(id) : id \in ids_live} = 0 .. MAX_INDEX => ~Ids_reserve ]_vars


\* C19: for every id, next_version_id is defined (it passes the assertions
\* of from_index_and_version) and returns the id of the same index and of
\* version (v + 1) mod NUM_VERSIONS, MAX_VERSION wrapping to 0; index() and
\* version() of from_index_and_version(i, v) are i and v; and the ids that
\* an IdStorage issues for one slot follow each other by next_version_id.
C19_NextVersionWraps ==
    /\ \A id \in AllIds :
          /\ from_index_and_version_ok(index(id), (version(id) + 1) % NUM_VERSIONS)
          /\ next_version_id(id) \in AllIds
          /\ index(next_version_id(id)) = index(id)
          /\ version(next_version_id(id)) = (version(id) + 1) % NUM_VERSIONS
          /\ version(id) = MAX_VERSION => version(next_version_id(id)) = 0
    /\ \A i \in 0 .. MAX_INDEX, v \in 0 .. MAX_VERSION :
          /\ from_index_and_version_ok(i, v)
          /\ index(from_index_and_version(i, v)) = i
          /\ version(from_index_and_version(i, v)) = v
    /\ \A i \in 0 .. MAX_INDEX :
          \A k \in 1 .. Len(ids_issued[i]) - 1 :
              ids_issued[i][k + 1] = next_version_id(ids_issued[i][k])

\* a slot has been reissued past its last version: an id of version
\* MAX_VERSION was followed by the id of version 0
C19_Witness ==
    \E i \in 0 .. MAX_INDEX :
        \E k \in 1 .. Len(ids_issued[i]) - 1 :
            /\ version(ids_issued[i][k]) = MAX_VERSION
            /\ version(ids_issued[i][k + 1]) = 0
            /\ IdStorage_contains(storage, ids_issued[i][k + 1])


(***************************************************************************)
(* Further claims about the scheduler                                      *)
(***************************************************************************)
\* C20: when the previous run_jobs call returned Ok and the next call has not
\* yet enqueued a job (it has reset the counters and is about to push the
\* root jobs), jobs_finished and every job's dependencies_finished are 0.
C20_CountersZeroBeforeFrame ==
    (caller = "push_roots" /\ last_result.kind = "Ok") =>
        /\ jobs_finished = 0
        /\ \A j \in DOMAIN graph : dependencies_finished[j] = 0


\* C21: every job execution is handed the game_time and delta_time that were
\* passed to the run_jobs call it stems from.
C21_HandedTheTimesOfItsCall ==
    \A w \in 1 .. worker_count :
        workers[w].pc = "running" =>
            /\ workers[w].game_time = game_time_of_call(workers[w].pushed)
            /\ workers[w].delta_time = delta_time_of_call(workers[w].pushed)


\* jobs A, B and C, C depending on A and B
JoinGraph == << {}, {}, {1, 2} >>

\* C22: with jobs A, B, C where C depends on A and B and with two viewports,
\* a run_jobs call that has returned Ok has executed A twice, B twice and C
\* exactly once, and C is entered only after all four executions of A and B
\* have returned.
C22_JoinRunsOncePerFrame ==
    (graph = JoinGraph /\ viewport_count = 2) =>
        /\ \A v \in ViewportIndices :
              (entered[<<3, v>>] > 0) =>
                  \A j \in {1, 2}, u \in ViewportIndices : returned[<<j, u>>] = 1
        /\ (Returned /\ last_result.kind = "Ok") =>
              /\ \A j \in {1, 2} : entered[<<j, 0>>] + entered[<<j, 1>>] = 2
              /\ entered[<<3, 0>>] + entered[<<3, 1>>] = 1


\* C23: while the calling thread is in the despawn / spawn drain of a
\* run_jobs call, no job execution is queued and no job function is running.
C23_DrainAfterEveryExecution ==
    caller \in {"drain_despawned", "drain_spawned"} =>
        /\ available_jobs = << >>
        /\ \A w \in 1 .. worker_count : workers[w].pc # "running"


\* C24: while a job function executes, its worker holds the reader lock of
\* every resource the job declared Read and the writer lock of every resource
\* it declared Write or ReadWrite.
C24_HoldsDeclaredLocks ==
    \A w \in 1 .. worker_count :
        workers[w].pc = "running" =>
            \A k \in DOMAIN resource_access(workers[w].job_index) :
                LET declared == resource_access(workers[w].job_index)[k]
                IN  [lock |-> "resource", resource |-> declared.resource,
                     mode |-> IF declared.access = "Read" THEN "read" ELSE "write"]
                        \in locks_held(workers[w])


\* run_jobs waits for a frame result while no result is in the channel, no
\* job is queued and no worker is past wait_mut: no result will ever arrive
BlockedForever ==
    /\ caller = "recv"
    /\ frame_finished = << >>
    /\ available_jobs = << >>
    /\ \A w \in 1 .. worker_count : workers[w].pc \in {"idle", "parked"}

\* C25: no scheduler is constructed over a job set whose dependency graph has
\* a cycle (construction fails), and so no run_jobs call is left blocked
\* waiting for jobs that can never become ready.
C25_CycleIsRejected ==
    HasCycle(graph) => (Scheduler_new_panics(graph) /\ ~BlockedForever)


(***************************************************************************)
(* Claims about the job registry                                           *)
(***************************************************************************)
\* the job registered under id
JobOf(jobs, id) == IdMap_get(jobs, id)[1]

Registered(jobs) == {id \in AllIds : IdMap_contains(jobs, id)}

\* C26: add_job_dependency(job, predecessor) adds the predecessor to the
\* job's dependencies, and changes nothing else, when both ids are registered
\* and their jobs are of the same kind; otherwise it leaves the registry as it
\* was.  After every call every recorded predecessor of a registered job is a
\* registered job of the same kind.
C26_DependenciesWithinKind ==
    [][ /\ \A id \in Registered(map') : \A d \in JobOf(map', id).dependencies :
              /\ d \in Registered(map')
              /\ JobOf(map', d).kind = JobOf(map', id).kind
        /\ map_last'.op = "add_job_dependency" =>
              LET job == map_last'.id
                  predecessor == map_last'.dependency
              IN  IF /\ {job, predecessor} \subseteq Registered(map)
                     /\ JobOf(map, job).kind = JobOf(map, predecessor).kind
                  THEN /\ JobOf(map', job) =
                            [JobOf(map, job) EXCEPT !.dependencies = @ \cup {predecessor}]
                       /\ Registered(map') = Registered(map)
                       /\ \A id \in Registered(map) \ {job} : JobOf(map', id) = JobOf(map, id)
                  ELSE map' = map ]_vars

\* two jobs of different kinds are registered, a predecessor is recorded, and
\* the last call was an add_job_dependency between the two kinds
C26_Witness ==
    /\ map_last.op = "add_job_dependency"
    /\ {map_last.id, map_last.dependency} \subseteq Registered(map)
    /\ JobOf(map, map_last.id).kind # JobOf(map, map_last.dependency).kind
    /\ \E id \in Registered(map) : JobOf(map, id).dependencies # {}


(***************************************************************************)
(* Claims about the scene                                                  *)
(***************************************************************************)
\* C27: scene.resource_storage(id) never fails; it yields None for every id
\* that was not registered when the scene was built (an index beyond the
\* registered range, a slot without storage, a registered index with another
\* version) and the storage for every id that was.
C27_AbsentForUnregistered ==
    /\ scene_last.op # "panic"
    /\ scene_last.op = "resource_storage" =>
          IF scene_last.id \in scene[1].registered
          THEN scene_last.result # None
          ELSE scene_last.result = None


\* the labels a document lists in its components
ListedLabels(json) ==
    IF json.entities = None THEN {}
    ELSE UNION { IF json.entities[1][k].components = None THEN {}
                 ELSE {json.entities[1][k].components[1][c][1] :
                           c \in DOMAIN json.entities[1][k].components[1]} :
                 k \in DOMAIN json.entities[1] }

\* C30: Scene::from_json returns an error when the document has no entities
\* array, when an entity has no components object, or when a component label
\* is not a registered resource label (an error about a label names a listed
\* label that is not registered); otherwise it returns the scene, in which
\* exactly one entity id is reserved per listed entity and every listed
\* component is stored for its entity.
C30_FromJsonBuildsOrFails ==
    scene_last.op = "from_json" =>
        LET json == scene_last.json
            built == scene_last.built
            registry == scene_last.registry
            unregistered == {l \in ListedLabels(json) :
                                resource_id_from_label(registry, l) = None}
        IN  IF \/ json.entities = None
               \/ \E k \in DOMAIN json.entities[1] : json.entities[1][k].components = None
               \/ unregistered # {}
            THEN /\ scene_last.kind = "Err"
                 /\ scene_last.label # "" => scene_last.label \in unregistered
            ELSE /\ scene_last.kind = "Ok"
                 /\ Len(IdStorage_iter(built.entities)) = Len(json.entities[1])
                 /\ \A k \in DOMAIN json.entities[1] :
                       \A c \in DOMAIN json.entities[1][k].components[1] :
                           LET member == json.entities[1][k].components[1][c]
                               resource_id == resource_id_from_label(registry, member[1])[1]
                           IN  Store_get(resource_storage(built, resource_id)[1],
                                         IdStorage_iter(built.entities)[k]) = Some(member[2])


(***************************************************************************)
(* C28: in the slice sparse store, after any sequence of insert_slice      *)
(* calls on several ids (re-inserts of a shorter or longer slice           *)
(* included), get of every id that was inserted returns exactly the slice  *)
(* most recently inserted for that id: same length, same order.            *)
(***************************************************************************)
C28_GetReturnsLatestSlice ==
    \A id \in DOMAIN slices_written :
        SliceStore_get(slices, id) = Some(slices_written[id])

(***************************************************************************)
(* C29: push(id, v) on an id that has a block grows the block: afterwards  *)
(* get(id) returns the previous slice with v appended, and the slice of    *)
(* every other id is unchanged.                                            *)
(***************************************************************************)
C29_PushAppends ==
    [][\A id \in SliceIds, resource \in Values :
          Sl_push(id, resource) =>
              /\ SliceStore_get(slices', id) =
                     Some(Append(SliceStore_get(slices, id)[1], resource))
              /\ \A other \in SliceIds :
                     index(other) # index(id) =>
                         SliceStore_get(slices', other) = SliceStore_get(slices, other)]_vars

(***************************************************************************)
(* Claims about the frame result and the frame boundary                    *)
(***************************************************************************)
\* the executions stemming from the current run_jobs call that are queued
QueuedOfFrame == {k \in DOMAIN available_jobs : available_jobs[k].pushed = frame}

\* the workers inside a job function for an execution of the current call
RunningOfFrame ==
    {w \in 1 .. worker_count : workers[w].pc = "running" /\ workers[w].pushed = frame}

\* a worker has just sent Ok(()) on the frame-result channel
OkPublished ==
    /\ Len(frame_finished') = Len(frame_finished) + 1
    /\ frame_finished'[Len(frame_finished')] = OkResult

\* C31: in a frame in which no job execution fails, Ok(()) is published
\* exactly once, by the jobs_finished increment that reaches
\* regular_job_count + per_viewport_job_count * viewport_count, and at that
\* moment every execution of the frame has returned: none is still queued or
\* running.
C31_OkOnceAfterEveryExecution ==
    [][(OkPublished /\ failed' = 0) =>
          /\ jobs_finished' = ExpectedJobsFinished(graph, viewport_count)
          /\ \A e \in Executions : returned'[e] = 1
          /\ QueuedOfFrame' = {}
          /\ RunningOfFrame' = {}
          /\ caller \in {"notify_all", "recv"}
          /\ \A k \in DOMAIN frame_finished : frame_finished[k] # OkResult]_vars

\* the workers that are inside a job function or are handling its completion
\* (counting it for the successors, pushing a successor)
WorkingOn == {w \in 1 .. worker_count : workers[w].pc \in {"running", "successors", "push"}}

\* C32: the pool executes one frame at a time: when run_jobs has returned, Ok
\* or Err, the ready queue holds no job and no worker is executing one or
\* handling its completion, so that whatever is queued or worked on stems
\* from the run_jobs call in progress and counts towards its counters only.
C32_OneFrameAtATime ==
    /\ Returned => (available_jobs = << >> /\ WorkingOn = {})
    /\ \A k \in DOMAIN available_jobs : available_jobs[k].pushed = frame
    /\ \A w \in WorkingOn : workers[w].pushed = frame

\* C33: whenever a job function is executing for a viewport, the texture and
\* the texture view of that viewport are Some: tick acquires them before
\* run_jobs and clears and presents them only when no execution of the frame
\* remains queued or running.
C33_TexturesDuringJobs ==
    /\ \A w \in 1 .. worker_count :
           workers[w].pc = "running" => textures[index(workers[w].viewport_id)] # None
    /\ (\E v \in DOMAIN textures : textures[v] = None) =>
           (available_jobs = << >> /\ \A w \in 1 .. worker_count : workers[w].pc # "running")

\* the direct and transitive successors of the jobs in ps
RECURSIVE Descendants(_, _)
Descendants(g, ps) ==
    LET more == ps \cup {j \in DOMAIN g : g[j] \cap ps # {}}
    IN  IF more = ps THEN ps ELSE Descendants(g, more)

SuccessorsOf(g, ps) == Descendants(g, {j \in DOMAIN g : g[j] \cap ps # {}})

\* worker w has just entered a job function
Enters(w) == workers[w].pc # "running" /\ workers'[w].pc = "running"

\* C34: when an execution of job p has returned an error in a frame, the
\* failed execution does not count as a completed predecessor: no direct or
\* transitive successor of p is entered during that frame, and no Ok is
\* published for that frame.
C34_FailedPredecessorBlocks ==
    [][/\ \A w \in 1 .. worker_count :
              (Enters(w) /\ caller # "idle") =>
                  workers'[w].job_index \notin SuccessorsOf(graph, failed_jobs)
       /\ OkPublished => failed' = 0]_vars

\* C35: when the viewport set is empty or no job is registered, run_jobs
\* enqueues nothing, no worker ever publishes a frame result, and run_jobs
\* never returns: it stays blocked on the frame-result channel.
C35_NothingToRunBlocks ==
    (viewport_count = 0 \/ graph = NoJob) =>
        /\ available_jobs = << >>
        /\ frame_finished = << >>
        /\ \A w \in 1 .. worker_count : workers[w].pc \in {"idle", "parked"}
        /\ frame > 0 => caller \in {"push_roots", "notify_all", "recv"}

\* run_jobs is waiting for a result over two chained jobs and no viewport,
\* every worker waiting on the condition variable
C35_Witness ==
    /\ viewport_count = 0
    /\ graph = TwoJobChain
    /\ worker_count = 2
    /\ caller = "recv"
    /\ Parked = {1, 2}

(***************************************************************************)
(* Structural claims about the stores                                      *)
(***************************************************************************)
\* the present mark of the reverse entry of index(e)
Store_present(st, e) ==
    index(e) < Len(st.reverse_array) /\ version(st.reverse_array[index(e) + 1]) = 1

\* the dense position the reverse entry of index(e) records
Store_dense(st, e) == index(st.reverse_array[index(e) + 1])

\* forward[reverse[index(e)].dense] == e
Store_forward_is(st, e) ==
    /\ index(e) < Len(st.reverse_array)
    /\ Store_dense(st, e) < Len(st.forward_array)
    /\ st.forward_array[Store_dense(st, e) + 1] = e

\* C36: after any sequence of inserts and removes, for every id e the reverse
\* entry of index(e) has its present mark set iff
\* forward[reverse[index(e)].dense] == e; and for every live e the dense
\* position recorded in reverse holds a value and no other live id maps to
\* that dense position.
C36_DenseInvariant ==
    /\ \A e \in AllIds : Store_present(store, e) <=> Store_forward_is(store, e)
    /\ \A e \in AllIds :
           Store_present(store, e) =>
               /\ Store_dense(store, e) < Len(store.resources)
               /\ store.resources[Store_dense(store, e) + 1] # Uninit
               /\ \A o \in AllIds :
                      (Store_present(store, o) /\ index(o) # index(e)) =>
                          Store_dense(store, o) # Store_dense(store, e)

\* the dense positions met by following the free-list links from pos, for at
\* most fuel steps, up to the end sentinel or a position outside the array
RECURSIVE Store_free_chain(_, _, _)
Store_free_chain(st, pos, fuel) ==
    IF pos = Store_FREE_LIST_END \/ pos >= Len(st.forward_array) \/ fuel = 0
    THEN << >>
    ELSE <<pos>> \o Store_free_chain(st, index(st.forward_array[pos + 1]), fuel - 1)

\* the position at which the walk along the free list stops
RECURSIVE Store_free_chain_end(_, _, _)
Store_free_chain_end(st, pos, fuel) ==
    IF pos = Store_FREE_LIST_END \/ pos >= Len(st.forward_array) \/ fuel = 0
    THEN pos
    ELSE Store_free_chain_end(st, index(st.forward_array[pos + 1]), fuel - 1)

\* the dense positions no present reverse entry records
Store_free_positions(st) ==
    {pos \in 0 .. Len(st.forward_array) - 1 :
        \A k \in DOMAIN st.reverse_array :
            version(st.reverse_array[k]) # 0 => index(st.reverse_array[k]) # pos}

\* C37: after any sequence of inserts and removes, for any dense length, the
\* free dense positions form a singly-linked chain from free_list_head to the
\* end sentinel and chain length + live count == dense length; so an insert
\* of a new id reuses a free dense position whenever one exists, and the
\* dense array grows only when none exists.
C37_FreeChain ==
    /\ [](LET chain == Store_free_chain(store, store.free_list_head,
                                        Len(store.forward_array))
          IN  /\ Store_free_chain_end(store, store.free_list_head,
                                      Len(store.forward_array)) = Store_FREE_LIST_END
              /\ {chain[k] : k \in DOMAIN chain} = Store_free_positions(store)
              /\ Len(chain) + Store_live_count(store) = Len(store.forward_array))
    /\ [][Len(store'.forward_array) > Len(store.forward_array) =>
              Store_free_positions(store) = {}]_vars

\* the slots met by following the index fields from pos, for at most fuel
\* steps, up to the end sentinel or an index outside the storage
RECURSIVE IdStorage_free_chain(_, _, _)
IdStorage_free_chain(st, pos, fuel) ==
    IF pos = IdStorage_FREE_LIST_END \/ pos >= Len(st.ids) \/ fuel = 0
    THEN << >>
    ELSE <<pos>> \o IdStorage_free_chain(st, index(st.ids[pos + 1]), fuel - 1)

\* the index at which the walk along the free list stops
RECURSIVE IdStorage_free_chain_end(_, _, _)
IdStorage_free_chain_end(st, pos, fuel) ==
    IF pos = IdStorage_FREE_LIST_END \/ pos >= Len(st.ids) \/ fuel = 0
    THEN pos
    ELSE IdStorage_free_chain_end(st, index(st.ids[pos + 1]), fuel - 1)

\* C38: in every reachable IdStorage state, following the index fields from
\* free_list_head visits exactly free_list_size distinct slots, none of them
\* live, and then reaches the end sentinel; and each free slot still holds
\* the version of the id that was freed from it.
C38_FreeListOfIds ==
    LET chain == IdStorage_free_chain(storage, storage.free_list_head, Len(storage.ids))
        visited == {chain[k] : k \in DOMAIN chain}
    IN  /\ IdStorage_free_chain_end(storage, storage.free_list_head, Len(storage.ids))
               = IdStorage_FREE_LIST_END
        /\ Len(chain) = storage.free_list_size
        /\ Cardinality(visited) = Len(chain)
        /\ visited \subseteq FreeSlots
        /\ \A i \in FreeSlots :
               version(storage.ids[i + 1]) =
                   version(ids_issued[i][Len(ids_issued[i])])

\* the buffer positions of a block of size cells that starts at offset
Cells(offset, size) == offset + 1 .. offset + size

\* the buffer positions of the free block at offset
FreeCells(st, offset) == Cells(offset, st.free_blocks[offset])

\* the buffer positions of the used block of index i
UsedCells(st, i) == Cells(st.used_blocks[i].offset, st.used_blocks[i].capacity)

\* C39: after any sequence of insert_slice calls, the free blocks are pairwise
\* disjoint, no used block overlaps a free block, the used blocks of
\* different ids are pairwise disjoint, and every used block lies within the
\* resource buffer.
C39_BlocksDisjoint ==
    /\ \A a, b \in DOMAIN slices.free_blocks :
           a # b => FreeCells(slices, a) \cap FreeCells(slices, b) = {}
    /\ \A i \in DOMAIN slices.used_blocks, a \in DOMAIN slices.free_blocks :
           UsedCells(slices, i) \cap FreeCells(slices, a) = {}
    /\ \A i, j \in DOMAIN slices.used_blocks :
           i # j => UsedCells(slices, i) \cap UsedCells(slices, j) = {}
    /\ \A i \in DOMAIN slices.used_blocks :
           /\ slices.used_blocks[i].size <= slices.used_blocks[i].capacity
           /\ UsedCells(slices, i) \subseteq DOMAIN slices.resources

\* a slice has been inserted into the remainder of a free block that an
\* earlier re-insert split, next to the block of another id
C39_Witness ==
    /\ slices_last.op = "insert_slice"
    /\ Cardinality(DOMAIN slices.used_blocks) = 2
    /\ \E i \in DOMAIN slices.used_blocks :
           /\ slices.used_blocks[i].offset > 0
           /\ slices.used_blocks[i].size > 0
           /\ slices.used_blocks[i].offset + slices.used_blocks[i].size
                  < Len(slices.resources)
    /\ \E a \in DOMAIN slices.free_blocks : slices.free_blocks[a] > 0

RECURSIVE SumOver(_, _)
SumOver(f, S) ==
    IF S = {} THEN 0
    ELSE LET x == CHOOSE y \in S : TRUE IN f[x] + SumOver(f, S \ {x})

\* C40: the slice sparse store never loses buffer space: after any sequence
\* of insert_slice calls, the sizes of all free blocks plus the capacities of
\* all used blocks add up to the length of the resource buffer.
C40_NoSpaceLost ==
    SumOver(slices.free_blocks, DOMAIN slices.free_blocks)
        + SumOver([i \in DOMAIN slices.used_blocks |-> slices.used_blocks[i].capacity],
                  DOMAIN slices.used_blocks)
        = Len(slices.resources)

=============================================================================
